---- MODULE Spec2Model ----
(***************************************************************************)
(* DFPWM1a streaming decoder (class DFPWM) and the legacy streaming        *)
(* playback pipeline (stop / playUrlStreamed / playBuffered /              *)
(* handleTrackEnd) of the DFPWM web player.                                *)
(*                                                                         *)
(* Samples are Float32 values lpflevel * (1/128).  Every lpflevel the      *)
(* decoder produces is a small integer, so the product is exact; a sample  *)
(* is represented here by its numerator over SCALE_DEN = 128.              *)
(***************************************************************************)
EXTENDS Integers, Sequences, FiniteSets, TLC

(***************************************************************************)
(* Decoder constants (DFPWM constructor).                                  *)
(***************************************************************************)
RESP_PREC == 10
LPF_STRENGTH == 140
\* 2 << (RESP_PREC - 8)
MIN_RESPONSE == 2 * (2 ^ (RESP_PREC - 8))
\* (1 << RESP_PREC) - 1
MAX_RESPONSE == (2 ^ RESP_PREC) - 1
\* 1 << (RESP_PREC - 1)
RESP_HALF == 2 ^ (RESP_PREC - 1)
\* SCALE = 1 / 128.0 : the denominator of every emitted sample
SCALE_DEN == 128

\* x >> n on a value inside the signed 32-bit range: arithmetic shift,
\* i.e. floor division by 2^n.
Sar(x, n) == x \div (2 ^ n)

Min2(a, b) == IF a < b THEN a ELSE b
Max2(a, b) == IF a > b THEN a ELSE b

\* The fields a DFPWM instance carries from one decode call to the next.
DecoderState ==
    [response : Int, level : Int, lastbit : BOOLEAN,
     flastlevel : Int, lpflevel : Int]

\* Mutant of NewDFPWM: response starts at MIN_RESPONSE.
NewDFPWM_MinResponse ==
    [response |-> MIN_RESPONSE, level |-> 0, lastbit |-> FALSE,
     flastlevel |-> 0, lpflevel |-> 0]

\* new DFPWM()
NewDFPWM ==
    [response |-> 0, level |-> 0, lastbit |-> FALSE,
     flastlevel |-> 0, lpflevel |-> 0]

\* Mutant of Integrate: the shift is RESP_PREC - 3.
Integrate_Shift7(response, level, target) ==
    LET l1 == level + Sar(response * (target - level) + RESP_HALF, RESP_PREC - 3)
    IN  IF l1 = target - 1 THEN l1 + 1 ELSE l1

\* level += ((response * (target - level) + RESP_HALF) >> RESP_PREC);
\* if (level === target - 1) level++;
Integrate(response, level, target) ==
    LET l1 == level + Sar(response * (target - level) + RESP_HALF, RESP_PREC)
    IN  IF l1 = target - 1 THEN l1 + 1 ELSE l1

\* Mutant of Adapt: on a differing bit the response target is MIN_RESPONSE.
Adapt_TargetMin(response, same) ==
    LET rtarget == IF same THEN MAX_RESPONSE ELSE MIN_RESPONSE
    IN  IF response # rtarget
        THEN Min2(Max2(response + (IF same THEN 1 ELSE -1), MIN_RESPONSE),
                  MAX_RESPONSE)
        ELSE response

\* Mutant of Adapt: the step without the Math.min/Math.max clamp.
Adapt_NoClamp(response, same) ==
    LET rtarget == IF same THEN MAX_RESPONSE ELSE 0
    IN  IF response # rtarget
        THEN response + (IF same THEN 1 ELSE -1)
        ELSE response

\* Mutant of Adapt: the step has the wrong sign.
Adapt_WrongSign(response, same) ==
    LET rtarget == IF same THEN MAX_RESPONSE ELSE 0
    IN  IF response # rtarget
        THEN Min2(Max2(response + (IF same THEN -1 ELSE 1), MIN_RESPONSE),
                  MAX_RESPONSE)
        ELSE response

\* if (response !== rtarget) { response += same ? 1 : -1; clamp }
Adapt(response, same) ==
    LET rtarget == IF same THEN MAX_RESPONSE ELSE 0
    IN  IF response # rtarget
        THEN Min2(Max2(response + (IF same THEN 1 ELSE -1), MIN_RESPONSE),
                  MAX_RESPONSE)
        ELSE response

\* const blended = same ? level : ((flastlevel + level + 1) >> 1);
Blend(same, flastlevel, level) ==
    IF same THEN level ELSE Sar(flastlevel + level + 1, 1)

\* Mutant of LowPass: the shift is 7 instead of 8.
LowPass_Shift7(lpflevel, blended) ==
    lpflevel + Sar(LPF_STRENGTH * (blended - lpflevel) + 128, 7)

\* lpflevel += ((LPF_STRENGTH * (blended - lpflevel) + 0x80) >> 8);
LowPass(lpflevel, blended) ==
    lpflevel + Sar(LPF_STRENGTH * (blended - lpflevel) + 128, 8)

\* Mutant of DecodeBit: flastlevel keeps the blended value instead of this
\* bit's level.
DecodeBit_FlastBlended(s, bit) ==
    LET target == IF bit THEN 127 ELSE -128
        level == Integrate(s.response, s.level, target)
        same == (bit = s.lastbit)
        blended == Blend(same, s.flastlevel, level)
    IN  [response |-> Adapt(s.response, same),
         level |-> level,
         lastbit |-> bit,
         flastlevel |-> blended,
         lpflevel |-> LowPass(s.lpflevel, blended)]

\* Mutant of DecodeBit: the targets are the 16-bit rails.
DecodeBit_WideTargets(s, bit) ==
    LET target == IF bit THEN 32767 ELSE -32768
        level == Integrate(s.response, s.level, target)
        same == (bit = s.lastbit)
        blended == Blend(same, s.flastlevel, level)
    IN  [response |-> Adapt(s.response, same),
         level |-> level,
         lastbit |-> bit,
         flastlevel |-> level,
         lpflevel |-> LowPass(s.lpflevel, blended)]

\* Mutant of DecodeBit: the two targets are exchanged.
DecodeBit_TargetsSwapped(s, bit) ==
    LET target == IF bit THEN -128 ELSE 127
        level == Integrate(s.response, s.level, target)
        same == (bit = s.lastbit)
        blended == Blend(same, s.flastlevel, level)
    IN  [response |-> Adapt(s.response, same),
         level |-> level,
         lastbit |-> bit,
         flastlevel |-> level,
         lpflevel |-> LowPass(s.lpflevel, blended)]

\* One pass of the inner loop body for one bit.
DecodeBit(s, bit) ==
    LET target == IF bit THEN 127 ELSE -128
        level == Integrate(s.response, s.level, target)
        same == (bit = s.lastbit)
        blended == Blend(same, s.flastlevel, level)
    IN  [response |-> Adapt(s.response, same),
         level |-> level,
         lastbit |-> bit,
         flastlevel |-> level,
         lpflevel |-> LowPass(s.lpflevel, blended)]

\* Mutant of BitLoop: the bits are taken from the top, `byte & 0x80` and
\* `byte <<= 1`.
RECURSIVE BitLoop_MsbFirst(_, _, _, _)
BitLoop_MsbFirst(s, out, byte, b) ==
    IF b >= 8 THEN [st |-> s, out |-> out]
    ELSE LET s1 == DecodeBit(s, byte >= 128)
         IN  BitLoop_MsbFirst(s1, Append(out, s1.lpflevel), (byte * 2) % 256, b + 1)

\* Mutant of BitLoop: the loop bound is 7.
RECURSIVE BitLoop_Seven(_, _, _, _)
BitLoop_Seven(s, out, byte, b) ==
    IF b >= 7 THEN [st |-> s, out |-> out]
    ELSE LET s1 == DecodeBit(s, (byte % 2) # 0)
         IN  BitLoop_Seven(s1, Append(out, s1.lpflevel), byte \div 2, b + 1)

\* for (let b = 0; b < 8; b++, byte >>= 1) { bit = (byte & 1) !== 0; ... }
RECURSIVE BitLoop(_, _, _, _)
BitLoop(s, out, byte, b) ==
    IF b >= 8 THEN [st |-> s, out |-> out]
    ELSE LET s1 == DecodeBit(s, (byte % 2) # 0)
         IN  BitLoop(s1, Append(out, s1.lpflevel), byte \div 2, b + 1)

\* for (let byte of uint8Array) { ... }
RECURSIVE ByteLoop(_, _, _)
ByteLoop(s, out, bytes) ==
    IF bytes = << >> THEN [st |-> s, out |-> out]
    ELSE LET r == BitLoop(s, out, Head(bytes), 0)
         IN  ByteLoop(r.st, r.out, Tail(bytes))

\* Mutant of decode: Object.assign leaves lastbit out.
decode_LastbitNotSaved(d, uint8Array) ==
    LET r == ByteLoop(d, << >>, uint8Array)
    IN  [state |-> [r.st EXCEPT !.lastbit = d.lastbit], out |-> r.out]

\* Mutant of decode: the local lastbit starts at false instead of being
\* loaded from the instance.
decode_LastbitReset(d, uint8Array) ==
    LET r == ByteLoop([d EXCEPT !.lastbit = FALSE], << >>, uint8Array)
    IN  [state |-> r.st, out |-> r.out]

\* DFPWM.decode: the locals are loaded from the instance, the loops run,
\* Object.assign writes the locals back and out.subarray(0, pos) is returned.
decode(d, uint8Array) ==
    LET r == ByteLoop(d, << >>, uint8Array)
    IN  [state |-> r.st, out |-> r.out]


(***************************************************************************)
(* Decoder harness.  One DFPWM instance `dec` is driven by decode calls;   *)
(* `pre`, `chunk` and `out` record the instance before the last call, the  *)
(* argument of the last call and what it returned.  `stream`, `fed` and    *)
(* `acc` are a byte sequence handed over in consecutive chunks, how much   *)
(* of it has been handed over, and the concatenation of the returned       *)
(* sample arrays.                                                          *)
(***************************************************************************)
VARIABLES dec, pre, chunk, out, stream, fed, acc

decVars == <<dec, pre, chunk, out, stream, fed, acc>>


(***************************************************************************)
(* Legacy streaming pipeline.                                              *)
(*                                                                         *)
(* Every call of playUrlStreamed is an invocation, kept in `inv` in call   *)
(* order with its locals, the promise it is suspended on and the state of  *)
(* its AbortController; a controller is named by the index of the          *)
(* invocation that created it, 0 standing for null.  Every                 *)
(* AudioBufferSourceNode that playBuffered creates is kept in `sources`    *)
(* in creation order; currentSource is an index into it, 0 for null.       *)
(*                                                                         *)
(* A promise is settled by the transport (FetchSettles, ReadSettles) or by *)
(* an abort, and the code after the await runs in a later step (Resume).   *)
(* startTime holds the index of the source whose start instant it          *)
(* recorded; totalDuration is counted in samples (seconds * SAMPLE_RATE).  *)
(***************************************************************************)
VARIABLES playbackId, currentFetchController, currentSource, isPlaying,
          isPaused, startTime, totalDuration, currentSong, queueSongs,
          inv, sources

pipeVars == <<playbackId, currentFetchController, currentSource, isPlaying,
              isPaused, startTime, totalDuration, currentSong, queueSongs,
              inv, sources>>

SAMPLE_RATE == 48000

\* Largest playbackId the model lets the counter reach.
MaxPlaybackId == 5
\* Longest queue.
MaxQueue == 1

\* The songs and the body the transport serves for each.
Songs == {"A", "B"}
SongBytes(song) == IF song = "A" THEN <<15, 255>> ELSE <<85, 0>>
NoSong == "null"

(***************************************************************************)
(* PlayerEngine (src/script.js): the engine object, the audio element it   *)
(* drives, navigator.mediaSession, the object URLs created so far, the     *)
(* invocations of play() and the events the last step dispatched.          *)
(*                                                                         *)
(* An object URL is its index in urls, 0 standing for null or no src.  The *)
(* promise an invocation awaits is settled by the cache or the audio       *)
(* element, or rejected by pause() or a load, and the code after the await *)
(* runs as a microtask before any other task.  The audio element's own     *)
(* events (timeupdate, ended, play, pause) are outside this model.         *)
(***************************************************************************)
VARIABLES player, audio, mediaSession, urls, plays, emitted

engVars == <<player, audio, mediaSession, urls, plays, emitted>>

(***************************************************************************)
(* PlaybackQueue (src/script.js): the fields of the one `queue` object,    *)
(* and the last method call on it: its name, arguments and return value    *)
(* and the fields as they were when it was called.  `restored` is the      *)
(* queue object of the next page load, filled by restoreState from the     *)
(* snapshot persistState left in localStorage.                             *)
(***************************************************************************)
VARIABLES items, currentIndex, lastCall, restored

queueVars == <<items, currentIndex, lastCall, restored>>

(***************************************************************************)
(* The song cache: the Cache Storage cache named 'dfpwm-song-cache-v1',    *)
(* which the page (SongCache, src/script.js), the service worker           *)
(* (src/sw.js) and the list page (src/unnamed/part_000) all open.          *)
(* `inflight` holds the activations of the asynchronous functions that     *)
(* are suspended at an await, `done` the activation that settled last.     *)
(* `localSongs` is the list page's array, `lastSync` the last run of       *)
(* syncLocalSongsWithCache.                                                *)
(***************************************************************************)
VARIABLES cacheStorage, inflight, done, localSongs, lastSync

cacheVars == <<cacheStorage, inflight, done, localSongs, lastSync>>

vars == <<decVars, pipeVars, engVars, queueVars, cacheVars>>

\* Longest queue the actions build.
MaxItems == 3

\* The songs of the library that can be queued.
Library == {"A", "B", "C"}

\* What a method without a return statement yields.
Undefined == "undefined"

\* new PlaybackQueue()
\* The next page has not been loaded.
NotRestored ==
    [loaded |-> FALSE, own |-> FALSE, items |-> << >>, currentIndex |-> -1,
     snapshot |-> [items |-> << >>, currentIndex |-> << >>]]

QueueInit ==
    /\ items = << >>
    /\ currentIndex = -1
    /\ lastCall = [method |-> "constructor", args |-> << >>,
                   result |-> Undefined, items |-> << >>, currentIndex |-> -1]
    /\ restored = NotRestored

\* Most activations suspended at an await at one time.
MaxCalls == 2

\* const SONGS_JSON_URL: the remote song list.
SONGS_JSON_URL == "songs.json"

\* The song files that are requested.
SongUrls == {"songs/a.dfpwm", "songs/b.dfpwm"}

\* The request URLs.
Urls == SongUrls \cup {SONGS_JSON_URL}

\* A Response is its status and what its body holds.  cache.match() that
\* finds nothing resolves with undefined.
NoEntry == [status |-> 0, body |-> "none"]

\* fetch() rejects: the network is unreachable.
NetworkError == [status |-> 0, body |-> "error"]

\* No activation has settled yet.
NoCall ==
    [fn |-> "none", via |-> "none", url |-> "none", pc |-> "done",
     supported |-> TRUE,
     cached |-> NoEntry, resp |-> NoEntry, fetched |-> FALSE,
     put |-> "none", settled |-> "pending", result |-> NoEntry]

\* syncLocalSongsWithCache has not been called.
NoSync == [outcome |-> "idle", result |-> FALSE, dropped |-> 0, pushed |-> 0]

\* A fresh origin: an empty song cache, `let localSongs = []`.
CacheInit ==
    /\ cacheStorage = [url \in Urls |-> NoEntry]
    /\ inflight = << >>
    /\ done = NoCall
    /\ localSongs = << >>
    /\ lastSync = NoSync

\* Largest requestId the model lets the counter reach.
MaxRequestId == 3

\* new PlayerEngine(audioEl, cache), before any request.
EngInit ==
    /\ player = [requestId |-> 0, status |-> "idle", objectUrl |-> 0,
                 currentSong |-> NoSong]
    /\ audio = [src |-> 0, paused |-> TRUE]
    /\ mediaSession = [metadata |-> NoSong, playbackState |-> "none"]
    /\ urls = << >>
    /\ plays = << >>
    /\ emitted = << >>

\* The shared state as one record, and its write-back.
G ==
    [playbackId |-> playbackId,
     currentFetchController |-> currentFetchController,
     currentSource |-> currentSource,
     isPlaying |-> isPlaying,
     isPaused |-> isPaused,
     startTime |-> startTime,
     totalDuration |-> totalDuration,
     currentSong |-> currentSong,
     queueSongs |-> queueSongs,
     inv |-> inv,
     sources |-> sources]

Becomes(g) ==
    /\ playbackId' = g.playbackId
    /\ currentFetchController' = g.currentFetchController
    /\ currentSource' = g.currentSource
    /\ isPlaying' = g.isPlaying
    /\ isPaused' = g.isPaused
    /\ startTime' = g.startTime
    /\ totalDuration' = g.totalDuration
    /\ currentSong' = g.currentSong
    /\ queueSongs' = g.queueSongs
    /\ inv' = g.inv
    /\ sources' = g.sources

RECURSIVE Concat(_)
Concat(ss) == IF ss = << >> THEN << >> ELSE Head(ss) \o Concat(Tail(ss))

\* controller.abort() on the controller of invocation c: the signal is
\* aborted, and a fetch or read that is still pending rejects with an
\* AbortError.  A promise that has already settled keeps its value.
AbortController(g, c) ==
    [g EXCEPT !.inv[c] =
        [@ EXCEPT !.aborted = TRUE,
                  !.settled = IF @ = "pending" THEN "abort" ELSE @]]

\* if (currentFetchController === controller) currentFetchController = null;
ReleaseController(g, i) ==
    IF g.currentFetchController = i
    THEN [g EXCEPT !.currentFetchController = 0]
    ELSE g

\* Mutant of stop: the stopped source's buffer is emptied.
stop_DropsBuffer(g) ==
    LET g0 == [g EXCEPT !.playbackId = @ + 1]
        g1 == IF g0.currentFetchController # 0
              THEN [AbortController(g0, g0.currentFetchController)
                        EXCEPT !.currentFetchController = 0]
              ELSE g0
        g2 == IF g1.currentSource # 0
              THEN [g1 EXCEPT
                        !.sources[g1.currentSource] =
                            [@ EXCEPT !.onended = FALSE,
                                      !.state = IF @ = "started" THEN "stopped" ELSE @,
                                      !.connected = FALSE,
                                      !.buffer = << >>],
                        !.currentSource = 0]
              ELSE g1
    IN  [g2 EXCEPT !.isPlaying = FALSE, !.isPaused = FALSE, !.currentSong = NoSong]

\* Mutant of stop: the fetch controller is dropped without abort().
stop_NoAbort(g) ==
    LET g0 == [g EXCEPT !.playbackId = @ + 1, !.currentFetchController = 0]
        g2 == IF g0.currentSource # 0
              THEN [g0 EXCEPT
                        !.sources[g0.currentSource] =
                            [@ EXCEPT !.onended = FALSE,
                                      !.state = IF @ = "started" THEN "stopped" ELSE @,
                                      !.connected = FALSE],
                        !.currentSource = 0]
              ELSE g0
    IN  [g2 EXCEPT !.isPlaying = FALSE, !.isPaused = FALSE, !.currentSong = NoSong]

\* stop()
stop(g) ==
    LET g0 == [g EXCEPT !.playbackId = @ + 1]
        g1 == IF g0.currentFetchController # 0
              THEN [AbortController(g0, g0.currentFetchController)
                        EXCEPT !.currentFetchController = 0]
              ELSE g0
        g2 == IF g1.currentSource # 0
              THEN [g1 EXCEPT
                        !.sources[g1.currentSource] =
                            [@ EXCEPT !.onended = FALSE,
                                      !.state = IF @ = "started" THEN "stopped" ELSE @,
                                      !.connected = FALSE],
                        !.currentSource = 0]
              ELSE g1
    IN  [g2 EXCEPT !.isPlaying = FALSE, !.isPaused = FALSE, !.currentSong = NoSong]

\* Mutant of NewDecoder: one decoder object shared by all invocations.
NewDecoder_Shared(g) ==
    IF \E j \in 1 .. Len(g.inv) : g.inv[j].decoder # NewDFPWM
    THEN LET j == CHOOSE k \in 1 .. Len(g.inv) :
                      /\ g.inv[k].decoder # NewDFPWM
                      /\ \A m \in 1 .. Len(g.inv) :
                             g.inv[m].decoder # NewDFPWM => m <= k
         IN  g.inv[j].decoder
    ELSE NewDFPWM

\* const decoder = new DFPWM();
NewDecoder(g) == NewDFPWM

\* playUrlStreamed(song) up to its first await: the id is taken, the
\* previous controller aborted, a new one installed and the fetch issued.
playUrlStreamed(g, song, caller) ==
    LET playId == g.playbackId + 1
        g1 == [g EXCEPT !.playbackId = playId, !.currentSong = song]
        g2 == IF g1.currentFetchController # 0
              THEN AbortController(g1, g1.currentFetchController)
              ELSE g1
        call == [song |-> song, playId |-> playId, caller |-> caller,
                 pc |-> "fetch", settled |-> "pending", value |-> << >>,
                 aborted |-> FALSE, sent |-> 0,
                 decoder |-> NewDFPWM, chunks |-> << >>, totalSamples |-> 0]
    IN  [g2 EXCEPT !.inv = Append(@, call),
                   !.currentFetchController = Len(g2.inv) + 1]

\* Mutant of playNextFromQueue: the head is read but not shifted off.
playNextFromQueue_NoShift(g) ==
    IF g.queueSongs = << >> THEN g
    ELSE playUrlStreamed(g, Head(g.queueSongs), "playNextFromQueue")

\* playNextFromQueue() up to the await of playUrlStreamed.
playNextFromQueue(g) ==
    IF g.queueSongs = << >> THEN g
    ELSE playUrlStreamed([g EXCEPT !.queueSongs = Tail(@)],
                         Head(g.queueSongs), "playNextFromQueue")

\* handleTrackEnd(playId)
handleTrackEnd(g, playId) ==
    IF playId # g.playbackId THEN g
    ELSE LET g1 == [g EXCEPT !.isPlaying = FALSE, !.isPaused = FALSE,
                             !.currentSource = 0]
         IN  IF Len(g1.queueSongs) > 0 THEN playNextFromQueue(g1) ELSE g1

\* playBuffered(chunks, totalSamples, song, playId)
playBuffered(g, chunks, totalSamples, song, playId) ==
    IF totalSamples = 0 THEN handleTrackEnd(g, playId)
    ELSE LET src == [buffer |-> Concat(chunks), length |-> totalSamples,
                     song |-> song, playId |-> playId,
                     state |-> "started", onended |-> TRUE,
                     connected |-> TRUE]
             k == Len(g.sources) + 1
         IN  [g EXCEPT !.sources = Append(@, src),
                       !.totalDuration = totalSamples,
                       !.startTime = k,
                       !.currentSource = k,
                       !.isPlaying = TRUE,
                       !.isPaused = FALSE,
                       !.currentSong = song]

\* The call of invocation i ends: its promise resolves (Return) or rejects
\* (Throw).  Its arguments and locals (song, controller, reader, decoder,
\* chunks) and its body stream die with it; what stays is its id, how it
\* ended and the outcome of its last await.
Finished(c, how) ==
    [c EXCEPT !.pc = how, !.value = << >>, !.sent = 0, !.song = NoSong,
              !.aborted = FALSE,
              !.decoder = NewDFPWM, !.chunks = << >>, !.totalSamples = 0]

Return(g, i) ==
    [g EXCEPT !.inv[i] = [Finished(@, "returned") EXCEPT !.caller = "none"]]
Throw(g, i) == [g EXCEPT !.inv[i] = Finished(@, "threw")]

\* The catch block of playNextFromQueue, reached when the playUrlStreamed
\* it awaits rejects.  playUrlStreamed never rejects with an AbortError, so
\* the error is logged and the next queued song, if any, is started.
playNextFromQueueCatch(g, i) ==
    LET g1 == [g EXCEPT !.inv[i].pc = "rejected", !.inv[i].caller = "none"]
    IN  IF Len(g1.queueSongs) > 0 THEN playNextFromQueue(g1) ELSE g1

\* Mutant of AfterFetch: the `!res?.ok` test is missing, the body of an
\* error response is streamed like a song.
AfterFetch_NotOkIgnored(g, i) ==
    LET c == g.inv[i]
    IN  IF c.settled \in {"error", "abort"}
        THEN LET g1 == ReleaseController(g, i)
             IN  IF c.settled = "abort" \/ c.playId # g.playbackId
                 THEN Return(g1, i)
                 ELSE Throw(g1, i)
        ELSE [g EXCEPT !.inv[i] =
                 [@ EXCEPT !.pc = "read",
                           !.settled = IF c.aborted THEN "abort" ELSE "pending",
                           !.decoder = NewDecoder(g),
                           !.chunks = << >>,
                           !.totalSamples = 0]]

\* The code after `await fetch(...)`, up to the first reader.read().
AfterFetch(g, i) ==
    LET c == g.inv[i]
    IN  IF c.settled \in {"error", "abort"}
        THEN LET g1 == ReleaseController(g, i)
             IN  IF c.settled = "abort" \/ c.playId # g.playbackId
                 THEN Return(g1, i)
                 ELSE Throw(g1, i)
        ELSE IF c.settled = "notok"
        THEN Throw(ReleaseController(g, i), i)
        ELSE [g EXCEPT !.inv[i] =
                 [@ EXCEPT !.pc = "read",
                           !.settled = IF c.aborted THEN "abort" ELSE "pending",
                           !.decoder = NewDecoder(g),
                           !.chunks = << >>,
                           !.totalSamples = 0]]

\* Mutant of AfterRead: the check before playBuffered is missing.
AfterRead_NoFinalCheck(g, i) ==
    LET c == g.inv[i]
    IN  IF c.settled = "chunk"
        THEN LET r == decode(c.decoder, c.value)
                 g1 == [g EXCEPT !.inv[i] =
                           [@ EXCEPT !.decoder = r.state,
                                     !.chunks = Append(@, r.out),
                                     !.totalSamples = @ + Len(r.out),
                                     !.value = << >>]]
             IN  IF c.playId # g.playbackId
                 THEN Return(ReleaseController(AbortController(g1, i), i), i)
                 ELSE [g1 EXCEPT !.inv[i].settled =
                           IF g1.inv[i].aborted THEN "abort" ELSE "pending"]
        ELSE IF c.settled = "done"
        THEN LET g1 == ReleaseController(g, i)
             IN  Return(playBuffered(g1, c.chunks, c.totalSamples, c.song, c.playId), i)
        ELSE LET g1 == ReleaseController(g, i)
             IN  IF c.settled = "abort" \/ c.playId # g.playbackId
                 THEN Return(g1, i)
                 ELSE Throw(g1, i)

\* Mutant of AfterRead: chunks.unshift(pcm) instead of chunks.push(pcm).
AfterRead_Unshift(g, i) ==
    LET c == g.inv[i]
    IN  IF c.settled = "chunk"
        THEN LET r == decode(c.decoder, c.value)
                 g1 == [g EXCEPT !.inv[i] =
                           [@ EXCEPT !.decoder = r.state,
                                     !.chunks = <<r.out>> \o @,
                                     !.totalSamples = @ + Len(r.out),
                                     !.value = << >>]]
             IN  IF c.playId # g.playbackId
                 THEN Return(ReleaseController(AbortController(g1, i), i), i)
                 ELSE [g1 EXCEPT !.inv[i].settled =
                           IF g1.inv[i].aborted THEN "abort" ELSE "pending"]
        ELSE IF c.settled = "done"
        THEN LET g1 == ReleaseController(g, i)
             IN  IF c.playId # g1.playbackId
                 THEN Return(g1, i)
                 ELSE Return(playBuffered(g1, c.chunks, c.totalSamples, c.song, c.playId), i)
        ELSE LET g1 == ReleaseController(g, i)
             IN  IF c.settled = "abort" \/ c.playId # g.playbackId
                 THEN Return(g1, i)
                 ELSE Throw(g1, i)

\* Mutant of AfterRead: the check inside the loop is missing.
AfterRead_NoLoopCheck(g, i) ==
    LET c == g.inv[i]
    IN  IF c.settled = "chunk"
        THEN LET r == decode(c.decoder, c.value)
                 g1 == [g EXCEPT !.inv[i] =
                           [@ EXCEPT !.decoder = r.state,
                                     !.chunks = Append(@, r.out),
                                     !.totalSamples = @ + Len(r.out),
                                     !.value = << >>]]
             IN  [g1 EXCEPT !.inv[i].settled =
                     IF g1.inv[i].aborted THEN "abort" ELSE "pending"]
        ELSE IF c.settled = "done"
        THEN LET g1 == ReleaseController(g, i)
             IN  IF c.playId # g1.playbackId
                 THEN Return(g1, i)
                 ELSE Return(playBuffered(g1, c.chunks, c.totalSamples, c.song, c.playId), i)
        ELSE LET g1 == ReleaseController(g, i)
             IN  IF c.settled = "abort" \/ c.playId # g.playbackId
                 THEN Return(g1, i)
                 ELSE Throw(g1, i)

\* The code after `await reader.read()`: one pass of the loop body, or the
\* exit through break, catch and finally.
AfterRead(g, i) ==
    LET c == g.inv[i]
    IN  IF c.settled = "chunk"
        THEN LET r == decode(c.decoder, c.value)
                 g1 == [g EXCEPT !.inv[i] =
                           [@ EXCEPT !.decoder = r.state,
                                     !.chunks = Append(@, r.out),
                                     !.totalSamples = @ + Len(r.out),
                                     !.value = << >>]]
             IN  IF c.playId # g.playbackId
                 THEN Return(ReleaseController(AbortController(g1, i), i), i)
                 ELSE [g1 EXCEPT !.inv[i].settled =
                           IF g1.inv[i].aborted THEN "abort" ELSE "pending"]
        ELSE IF c.settled = "done"
        THEN LET g1 == ReleaseController(g, i)
             IN  IF c.playId # g1.playbackId
                 THEN Return(g1, i)
                 ELSE Return(playBuffered(g1, c.chunks, c.totalSamples, c.song, c.playId), i)
        ELSE LET g1 == ReleaseController(g, i)
             IN  IF c.settled = "abort" \/ c.playId # g.playbackId
                 THEN Return(g1, i)
                 ELSE Throw(g1, i)

(***************************************************************************)
(* Decoder harness: inputs, initial states and the two ways of driving    *)
(* one instance.                                                           *)
(***************************************************************************)
\* Byte values fed to the decoder: all zeros, all ones, the two alternating
\* patterns (0x55, 0xAA), and two mixed bytes (0x0F, 0x01).
DeepBytes == {0, 255, 85}
ChunkBytes == {0, 255, 85, 170, 15, 1}

\* Longest byte sequence cut into chunks.
MaxLen == 3

RECURSIVE SeqsUpTo(_, _)
SeqsUpTo(S, n) ==
    IF n = 0 THEN {<< >>}
    ELSE LET shorter == SeqsUpTo(S, n - 1)
         IN  shorter \cup {Append(q, x) : q \in {t \in shorter : Len(t) = n - 1}, x \in S}

PipeInit ==
    /\ playbackId = 0
    /\ currentFetchController = 0
    /\ currentSource = 0
    /\ isPlaying = FALSE
    /\ isPaused = FALSE
    /\ startTime = 0
    /\ totalDuration = 0
    /\ currentSong = NoSong
    /\ queueSongs = << >>
    /\ inv = << >>
    /\ sources = << >>

\* The chunks of the free-running harness and the streams that are cut up.
DeepChunks == {<< >>} \cup {<<x>> : x \in DeepBytes}
Streams == SeqsUpTo(ChunkBytes, MaxLen)

DecInitVars ==
    /\ dec = NewDFPWM
    /\ pre = NewDFPWM
    /\ chunk = << >>
    /\ out = << >>
    /\ stream = << >>
    /\ fed = 0
    /\ acc = << >>

DecInit == DecInitVars /\ PipeInit /\ EngInit /\ QueueInit /\ CacheInit

\* decoder.decode(c) on the instance, for the empty chunk and for every
\* one-byte chunk: the instance walks through every state that byte
\* sequences over DeepBytes can put it in.
DecodeCall ==
    \E c \in DeepChunks :
        LET r == decode(dec, c)
        IN  /\ pre' = dec
            /\ chunk' = c
            /\ out' = r.out
            /\ dec' = r.state
            /\ UNCHANGED <<stream, fed, acc>>
            /\ UNCHANGED <<pipeVars, engVars, queueVars, cacheVars>>

ChunkInit ==
    /\ dec = NewDFPWM
    /\ pre = NewDFPWM
    /\ chunk = << >>
    /\ out = << >>
    /\ stream \in Streams
    /\ fed = 0
    /\ acc = << >>
    /\ PipeInit
    /\ EngInit
    /\ QueueInit
    /\ CacheInit

\* The next n bytes of the stream (n = 0 included) go through decode on the
\* same instance and the returned samples are appended.
FeedChunk ==
    \E n \in 0 .. (Len(stream) - fed) :
        LET c == SubSeq(stream, fed + 1, fed + n)
            r == decode(dec, c)
        IN  /\ pre' = dec
            /\ chunk' = c
            /\ out' = r.out
            /\ dec' = r.state
            /\ fed' = fed + n
            /\ acc' = acc \o r.out
            /\ UNCHANGED stream
            /\ UNCHANGED <<pipeVars, engVars, queueVars, cacheVars>>

SpecDecoder == DecInit /\ [][DecodeCall]_vars
SpecChunk == ChunkInit /\ [][FeedChunk]_vars

(***************************************************************************)
(* Pipeline actions: the user's requests, the transport, the audio sink    *)
(* and the resumption of a suspended playUrlStreamed.                      *)
(***************************************************************************)
Bounded(g) == g.playbackId <= MaxPlaybackId

Step(g) ==
    Bounded(g) /\ Becomes(g) /\ UNCHANGED <<decVars, engVars, queueVars, cacheVars>>

\* controller.abort() rejects the pending promise within the task that
\* calls it, and a rejected playUrlStreamed reaches the catch of its caller
\* the same way: both continuations are microtasks that run before the next
\* task (a user request, a transport event, an 'ended' event).
AbortPending(i) ==
    inv[i].pc \in {"fetch", "read"} /\ inv[i].settled = "abort"
CatchPending(i) ==
    inv[i].pc = "threw" /\ inv[i].caller = "playNextFromQueue"
NoMicrotask ==
    \A i \in 1 .. Len(inv) : ~AbortPending(i) /\ ~CatchPending(i)

\* playSelected() with a song of the public or local list selected.
PlaySelected ==
    /\ NoMicrotask
    /\ \E song \in Songs : Step(playUrlStreamed(stop(G), song, "playSelected"))

\* playSelected() with queue entry k selected: takeSelectedSong splices it
\* out of the queue first.
PlaySelectedQueued ==
    /\ NoMicrotask
    /\ \E k \in 1 .. Len(queueSongs) :
        LET rest == SubSeq(queueSongs, 1, k - 1)
                        \o SubSeq(queueSongs, k + 1, Len(queueSongs))
        IN  Step(playUrlStreamed(stop([G EXCEPT !.queueSongs = rest]),
                                 queueSongs[k], "playSelected"))

\* stopBtn.onclick, mediaSession 'stop'
Stop == NoMicrotask /\ Step(stop(G))

\* skipTrack(1) with a non-empty queue: stop(); playNextFromQueue();
SkipToQueued ==
    /\ NoMicrotask
    /\ queueSongs # << >>
    /\ Step(playNextFromQueue(stop(G)))

\* queueAddBtn.onclick
QueueAdd ==
    /\ NoMicrotask
    /\ \E song \in Songs :
        /\ Len(queueSongs) < MaxQueue
        /\ Step([G EXCEPT !.queueSongs = Append(@, song)])

\* The fetch of invocation i settles: a response with ok status, one
\* without, or a network error.
FetchSettles(i) ==
    /\ NoMicrotask
    /\ inv[i].pc = "fetch"
    /\ inv[i].settled = "pending"
    /\ \E outcome \in {"ok", "notok", "error"} :
           Step([G EXCEPT !.inv[i].settled = outcome])

\* The pending read of invocation i settles: the next n bytes of the body,
\* the end of the body, or a network error.
ReadSettles(i) ==
    /\ NoMicrotask
    /\ inv[i].pc = "read"
    /\ inv[i].settled = "pending"
    /\ LET body == SongBytes(inv[i].song)
           left == Len(body) - inv[i].sent
       IN  \/ \E n \in 1 .. left :
                  Step([G EXCEPT !.inv[i] =
                           [@ EXCEPT !.settled = "chunk",
                                     !.value = SubSeq(body, inv[i].sent + 1, inv[i].sent + n),
                                     !.sent = @ + n]])
           \/ /\ left = 0
              /\ Step([G EXCEPT !.inv[i].settled = "done"])
           \/ Step([G EXCEPT !.inv[i].settled = "error"])

\* Invocation i runs on from the await whose promise has settled.
Resume(i) ==
    /\ inv[i].pc \in {"fetch", "read"}
    /\ inv[i].settled # "pending"
    /\ (NoMicrotask \/ AbortPending(i))
    /\ Step(IF inv[i].pc = "fetch" THEN AfterFetch(G, i) ELSE AfterRead(G, i))

\* The rejection of invocation i reaches the catch of playNextFromQueue.
QueueCatch(i) ==
    /\ CatchPending(i)
    /\ Step(playNextFromQueueCatch(G, i))

\* Source k plays to its end: the 'ended' event runs src.onended if set.
SourceEnded(k) ==
    /\ NoMicrotask
    /\ sources[k].state = "started"
    /\ LET g1 == [G EXCEPT !.sources[k].state = "ended"]
       IN  Step(IF sources[k].onended
                THEN handleTrackEnd(g1, sources[k].playId)
                ELSE g1)

Next ==
    \/ PlaySelected
    \/ PlaySelectedQueued
    \/ Stop
    \/ SkipToQueued
    \/ QueueAdd
    \/ \E i \in 1 .. Len(inv) : FetchSettles(i)
    \/ \E i \in 1 .. Len(inv) : ReadSettles(i)
    \/ \E i \in 1 .. Len(inv) : Resume(i)
    \/ \E i \in 1 .. Len(inv) : QueueCatch(i)
    \/ \E k \in 1 .. Len(sources) : SourceEnded(k)

Init == PipeInit /\ DecInitVars /\ EngInit /\ QueueInit /\ CacheInit

Spec == Init /\ [][Next]_vars

(***************************************************************************)
(* PlayerEngine: operators on the engine state as one record.              *)
(***************************************************************************)
E ==
    [player |-> player, audio |-> audio, mediaSession |-> mediaSession,
     urls |-> urls, plays |-> plays, emitted |-> emitted]

EBecomes(e) ==
    /\ player' = e.player
    /\ audio' = e.audio
    /\ mediaSession' = e.mediaSession
    /\ urls' = e.urls
    /\ plays' = e.plays
    /\ emitted' = e.emitted

\* dfpwmBufferToFloat32: a new DFPWM over the whole buffer.
dfpwmBufferToFloat32(arrayBuffer) == decode(NewDFPWM, arrayBuffer).out

\* The 16-bit value float32ToWavBuffer stores for the sample n / SCALE_DEN:
\* sample * 0x8000 below zero, sample * 0x7fff otherwise, truncated by
\* setInt16.
Int16Sample(n) ==
    IF n < 0 THEN (n * 32768) \div SCALE_DEN ELSE (n * 32767) \div SCALE_DEN

\* float32ToWavBuffer: the data section; the 44-byte header is fixed by the
\* sample count and SAMPLE_RATE.
float32ToWavBuffer(samples) ==
    [n \in 1 .. Len(samples) |-> Int16Sample(samples[n])]

\* dfpwmBufferToObjectUrl: URL.createObjectURL on the WAV blob.
dfpwmBufferToObjectUrl(e, arrayBuffer) ==
    [e EXCEPT !.urls =
        Append(@, [wav |-> float32ToWavBuffer(dfpwmBufferToFloat32(arrayBuffer)),
                   revoked |-> FALSE])]

\* this.dispatchEvent(new CustomEvent('status', ...))
PlayerEngine_emitStatus(e, extra) ==
    [e EXCEPT !.emitted =
        Append(@, [type |-> "status", status |-> e.player.status,
                   song |-> e.player.currentSong, extra |-> extra])]

\* audio.pause() and the load started by a change of src: an element that
\* is not paused becomes paused and its pending play() promises are
\* rejected with AbortError.
InterruptPlayback(e) ==
    IF e.audio.paused
    THEN e
    ELSE [e EXCEPT
             !.audio.paused = TRUE,
             !.plays = [i \in 1 .. Len(e.plays) |->
                           IF e.plays[i].pc = "audioplay"
                                  /\ e.plays[i].settled = "pending"
                           THEN [e.plays[i] EXCEPT !.settled = "abort"]
                           ELSE e.plays[i]]]

\* URL.revokeObjectURL(this.objectUrl) if there is one.
RevokeObjectUrl(e) ==
    IF e.player.objectUrl # 0
    THEN [e EXCEPT !.urls[e.player.objectUrl].revoked = TRUE]
    ELSE e

\* Mutant of PlayerEngine_setObjectUrl: the previous URL is not revoked.
PlayerEngine_setObjectUrl_NoRevoke(e, url) ==
    InterruptPlayback([e EXCEPT !.player.objectUrl = url, !.audio.src = url])

\* _setObjectUrl(url)
PlayerEngine_setObjectUrl(e, url) ==
    InterruptPlayback([RevokeObjectUrl(e) EXCEPT !.player.objectUrl = url,
                                                 !.audio.src = url])

\* Mutant of PlayerEngine_play: requestId is captured but not incremented.
PlayerEngine_play_NoIncrement(e, song) ==
    LET rid == e.player.requestId
        e1 == [e EXCEPT !.player.currentSong = song,
                        !.player.status = "buffering"]
        e2 == PlayerEngine_emitStatus(e1, "buffering")
    IN  [e2 EXCEPT !.plays =
            Append(@, [song |-> song, rid |-> rid, pc |-> "get",
                       settled |-> "pending", value |-> 0])]

\* play(song) up to its first await.
PlayerEngine_play(e, song) ==
    LET rid == e.player.requestId + 1
        e1 == [e EXCEPT !.player.requestId = rid,
                        !.player.currentSong = song,
                        !.player.status = "buffering"]
        e2 == PlayerEngine_emitStatus(e1, "buffering")
    IN  [e2 EXCEPT !.plays =
            Append(@, [song |-> song, rid |-> rid, pc |-> "get",
                       settled |-> "pending", value |-> 0])]

\* playSong(song) for a song: player.play(song) is its only effect on the
\* engine.
playSong(e, song) == PlayerEngine_play(e, song)

\* Mutant of PlayerEngine_stop: requestId is left as it is.
PlayerEngine_stop_NoIncrement(e) ==
    LET e2 == InterruptPlayback(e)
        e3 == [RevokeObjectUrl(e2) EXCEPT !.audio.src = 0,
                                          !.player.objectUrl = 0,
                                          !.player.currentSong = NoSong,
                                          !.player.status = "idle"]
    IN  PlayerEngine_emitStatus(e3, "none")

\* stop()
PlayerEngine_stop(e) ==
    LET e1 == [e EXCEPT !.player.requestId = @ + 1]
        e2 == InterruptPlayback(e1)
        e3 == [RevokeObjectUrl(e2) EXCEPT !.audio.src = 0,
                                          !.player.objectUrl = 0,
                                          !.player.currentSong = NoSong,
                                          !.player.status = "idle"]
    IN  PlayerEngine_emitStatus(e3, "none")

\* An invocation that is over keeps its id, where it ended and what its
\* last promise settled to.
EFinished(c, how) == [c EXCEPT !.pc = how, !.song = NoSong, !.value = 0]

\* `return` on an id mismatch: play() resolves, playSong runs on.
EReturn(e, i) == [e EXCEPT !.plays[i] = EFinished(@, "returned")]

\* The catch block of play(), and the catch of playSong its throw reaches.
PlayerEngine_catch(e, i) ==
    LET e1 == [e EXCEPT !.player.status = "idle"]
        e2 == PlayerEngine_emitStatus(e1, "error")
        e3 == [e2 EXCEPT !.emitted =
                  Append(@, [type |-> "error", status |-> e2.player.status,
                             song |-> e2.player.currentSong, extra |-> "error"])]
    IN  [e3 EXCEPT !.plays[i] = EFinished(@, "caught")]

\* After `await this.cache.get(song.url)`.
AfterCacheGet(e, i) ==
    LET c == e.plays[i]
    IN  IF c.settled # "ok"
        THEN PlayerEngine_catch(e, i)
        ELSE IF c.rid # e.player.requestId
        THEN EReturn(e, i)
        ELSE LET e1 == dfpwmBufferToObjectUrl(e, SongBytes(c.song))
             IN  [e1 EXCEPT !.plays[i] =
                     [@ EXCEPT !.pc = "decode", !.settled = "ok",
                               !.value = Len(e1.urls)]]

\* After `await dfpwmBufferToObjectUrl(buffer)`: _setObjectUrl, audio.play().
AfterObjectUrl(e, i) ==
    LET c == e.plays[i]
    IN  IF c.rid # e.player.requestId
        THEN EReturn(e, i)
        ELSE LET e1 == PlayerEngine_setObjectUrl(e, c.value)
             IN  [e1 EXCEPT !.audio.paused = FALSE,
                            !.plays[i] = [@ EXCEPT !.pc = "audioplay",
                                                   !.settled = "pending"]]

\* After `await this.audio.play()`.
AfterAudioPlay(e, i) ==
    LET c == e.plays[i]
    IN  IF c.settled # "ok"
        THEN PlayerEngine_catch(e, i)
        ELSE LET e1 == [e EXCEPT !.player.status = "playing"]
                 e2 == PlayerEngine_emitStatus(e1, "none")
             IN  [e2 EXCEPT !.mediaSession = [metadata |-> c.song,
                                              playbackState |-> "playing"],
                            !.plays[i] = EFinished(@, "resolved")]

(***************************************************************************)
(* PlayerEngine: actions.                                                  *)
(***************************************************************************)
EngineBounded(e) == e.player.requestId <= MaxRequestId

EngineStep(e) ==
    /\ EngineBounded(e)
    /\ EBecomes(e)
    /\ UNCHANGED <<decVars, pipeVars, queueVars, cacheVars>>

\* The engine state at the start of a step: nothing dispatched yet.
E0 == [E EXCEPT !.emitted = << >>]

EnginePlays == 1 .. Len(plays)

EngineInFlight(i) == plays[i].pc \in {"get", "decode", "audioplay"}

\* A settled promise whose continuation has not run yet.
EngineMicrotask(i) == EngineInFlight(i) /\ plays[i].settled # "pending"

NoEngineMicrotask == \A i \in EnginePlays : ~EngineMicrotask(i)

\* playSong(song) from a button, the queue or mediaSession.
PlaySong ==
    /\ NoEngineMicrotask
    /\ \E song \in Songs : EngineStep(playSong(E0, song))

\* stopBtn and clearQueueBtn: player.stop()
StopClick ==
    /\ NoEngineMicrotask
    /\ EngineStep(PlayerEngine_stop(E0))

\* cache.get of invocation i settles: the song's bytes, or a rejection
\* (network failure, HTTP status not OK).
CacheGetSettles(i) ==
    /\ NoEngineMicrotask
    /\ plays[i].pc = "get"
    /\ plays[i].settled = "pending"
    /\ \E outcome \in {"ok", "error"} :
           EngineStep([E0 EXCEPT !.plays[i].settled = outcome])

\* audio.play() of invocation i settles: playback has started, or the
\* element refuses (NotAllowedError, NotSupportedError).
AudioPlaySettles(i) ==
    /\ NoEngineMicrotask
    /\ plays[i].pc = "audioplay"
    /\ plays[i].settled = "pending"
    /\ \E outcome \in {"ok", "error"} :
           EngineStep([E0 EXCEPT !.plays[i].settled = outcome])

\* Invocation i runs on from the await whose promise has settled.
EngineResume(i) ==
    /\ EngineMicrotask(i)
    /\ EngineStep(IF plays[i].pc = "get" THEN AfterCacheGet(E0, i)
                  ELSE IF plays[i].pc = "decode" THEN AfterObjectUrl(E0, i)
                  ELSE AfterAudioPlay(E0, i))

EngineNext ==
    \/ PlaySong
    \/ StopClick
    \/ \E i \in EnginePlays : CacheGetSettles(i)
    \/ \E i \in EnginePlays : AudioPlaySettles(i)
    \/ \E i \in EnginePlays : EngineResume(i)

SpecEngine == Init /\ [][EngineNext]_vars

(***************************************************************************)
(* The legacy page and the PlayerEngine page are separate scripts: a run   *)
(* is a run of one of the two players, the other staying as constructed.   *)
(***************************************************************************)
LegacyIdle == playbackId = 0 /\ queueSongs = << >>

EngineIdle == player.requestId = 0

PlayersNext ==
    \/ EngineIdle /\ Next
    \/ LegacyIdle /\ EngineNext

SpecPlayers == Init /\ [][PlayersNext]_vars

(***************************************************************************)
(* PlaybackQueue: methods as operators on the record of its fields.  The   *)
(* field `result` is what the method returns.  Indexes are 0-based as in   *)
(* the source; items[i] of the source is ItemAt(list, i).                  *)
(***************************************************************************)
Q == [items |-> items, currentIndex |-> currentIndex, result |-> Undefined]

\* this.items[i]: undefined outside the array.
ItemAt(list, i) ==
    IF 0 <= i /\ i < Len(list) THEN list[i + 1] ELSE Undefined

\* enqueue(song)
PlaybackQueue_enqueue(q, song) ==
    IF song = NoSong THEN q
    ELSE [q EXCEPT !.items = Append(@, song),
                   !.currentIndex = IF @ = -1 THEN 0 ELSE @]

\* enqueueMany(songs): songs.forEach((song) => this.enqueue(song))
RECURSIVE PlaybackQueue_enqueueMany(_, _)
PlaybackQueue_enqueueMany(q, songs) ==
    IF songs = << >> THEN q
    ELSE PlaybackQueue_enqueueMany(PlaybackQueue_enqueue(q, Head(songs)),
                                   Tail(songs))

\* clear()
PlaybackQueue_clear(q) == [q EXCEPT !.items = << >>, !.currentIndex = -1]

\* getCurrent(), a read-only method: the value it returns.
PlaybackQueue_getCurrent(q) ==
    IF q.currentIndex < 0 THEN NoSong
    ELSE IF ItemAt(q.items, q.currentIndex) = Undefined THEN NoSong
    ELSE ItemAt(q.items, q.currentIndex)

\* Mutant of PlaybackQueue_next: at the last item repeat 'off' wraps too.
PlaybackQueue_next_AlwaysWraps(q, repeatMode) ==
    IF Len(q.items) = 0 THEN [q EXCEPT !.result = NoSong]
    ELSE IF repeatMode = "track" /\ q.currentIndex # -1
    THEN [q EXCEPT !.result = ItemAt(q.items, q.currentIndex)]
    ELSE IF q.currentIndex < 0
    THEN [q EXCEPT !.currentIndex = 0, !.result = ItemAt(q.items, 0)]
    ELSE IF q.currentIndex + 1 < Len(q.items)
    THEN [q EXCEPT !.currentIndex = @ + 1,
                   !.result = ItemAt(q.items, q.currentIndex + 1)]
    ELSE [q EXCEPT !.currentIndex = 0, !.result = ItemAt(q.items, 0)]

\* next(repeatMode)
PlaybackQueue_next(q, repeatMode) ==
    IF Len(q.items) = 0 THEN [q EXCEPT !.result = NoSong]
    ELSE IF repeatMode = "track" /\ q.currentIndex # -1
    THEN [q EXCEPT !.result = ItemAt(q.items, q.currentIndex)]
    ELSE IF q.currentIndex < 0
    THEN [q EXCEPT !.currentIndex = 0, !.result = ItemAt(q.items, 0)]
    ELSE IF q.currentIndex + 1 < Len(q.items)
    THEN [q EXCEPT !.currentIndex = @ + 1,
                   !.result = ItemAt(q.items, q.currentIndex + 1)]
    ELSE IF repeatMode = "queue"
    THEN [q EXCEPT !.currentIndex = 0, !.result = ItemAt(q.items, 0)]
    ELSE [q EXCEPT !.result = NoSong]

\* previous(repeatMode)
PlaybackQueue_previous(q, repeatMode) ==
    IF Len(q.items) = 0 THEN [q EXCEPT !.result = NoSong]
    ELSE IF repeatMode = "track" /\ q.currentIndex # -1
    THEN [q EXCEPT !.result = ItemAt(q.items, q.currentIndex)]
    ELSE IF q.currentIndex > 0
    THEN [q EXCEPT !.currentIndex = @ - 1,
                   !.result = ItemAt(q.items, q.currentIndex - 1)]
    ELSE [q EXCEPT !.currentIndex = 0, !.result = ItemAt(q.items, 0)]

\* jump(index)
PlaybackQueue_jump(q, index) ==
    IF index < 0 \/ index >= Len(q.items) THEN [q EXCEPT !.result = NoSong]
    ELSE [q EXCEPT !.currentIndex = index, !.result = ItemAt(q.items, index)]

\* this.items.splice(index, 1) for 0 <= index < items.length
Splice1(list, index) ==
    SubSeq(list, 1, index) \o SubSeq(list, index + 2, Len(list))

\* Mutant of PlaybackQueue_remove: currentIndex is not moved down when an
\* earlier item is removed.
PlaybackQueue_remove_NoShift(q, index) ==
    IF index < 0 \/ index >= Len(q.items) THEN q
    ELSE LET q1 == [q EXCEPT !.items = Splice1(@, index)]
         IN  IF Len(q1.items) = 0 THEN [q1 EXCEPT !.currentIndex = -1]
             ELSE IF q1.currentIndex >= Len(q1.items)
                  THEN [q1 EXCEPT !.currentIndex = Len(q1.items) - 1]
                  ELSE q1

\* Mutant of PlaybackQueue_remove: the queue that became empty keeps its
\* currentIndex.
PlaybackQueue_remove_NoReset(q, index) ==
    IF index < 0 \/ index >= Len(q.items) THEN q
    ELSE LET q1 == [q EXCEPT !.items = Splice1(@, index)]
             q2 == IF index < q1.currentIndex
                   THEN [q1 EXCEPT !.currentIndex = @ - 1]
                   ELSE q1
         IN  IF Len(q1.items) = 0 THEN q1
             ELSE IF q2.currentIndex >= Len(q2.items)
                  THEN [q2 EXCEPT !.currentIndex = Len(q2.items) - 1]
                  ELSE q2

\* remove(index)
PlaybackQueue_remove(q, index) ==
    IF index < 0 \/ index >= Len(q.items) THEN q
    ELSE LET q1 == [q EXCEPT !.items = Splice1(@, index)]
             q2 == IF index < q1.currentIndex
                   THEN [q1 EXCEPT !.currentIndex = @ - 1]
                   ELSE q1
         IN  IF Len(q1.items) = 0 THEN [q1 EXCEPT !.currentIndex = -1]
             ELSE IF q2.currentIndex >= Len(q2.items)
                  THEN [q2 EXCEPT !.currentIndex = Len(q2.items) - 1]
                  ELSE q2

\* [array[i], array[j]] = [array[j], array[i]], positions counted from 1.
Swap(array, i, j) ==
    [array EXCEPT ![i] = array[j], ![j] = array[i]]

\* The loop of shuffle() from position i down: every array the choices of
\* Math.random can produce.
RECURSIVE FisherYates(_, _)
FisherYates(array, i) ==
    IF i <= 1 THEN {array}
    ELSE UNION {FisherYates(Swap(array, i, j), i - 1) : j \in 1 .. i}

\* this.items.findIndex((item) => item.url === url)
FindIndex(list, url) ==
    IF \E k \in 1 .. Len(list) : list[k] = url
    THEN (CHOOSE k \in 1 .. Len(list) :
              list[k] = url /\ \A m \in 1 .. k - 1 : list[m] # url) - 1
    ELSE -1

\* Mutant of PlaybackQueue_shuffle: currentIndex is left where it was.
PlaybackQueue_shuffle_KeepIndex(q, array) == [q EXCEPT !.items = array]

\* shuffle() when the loop has produced `array`.
PlaybackQueue_shuffle(q, array) ==
    LET current == PlaybackQueue_getCurrent(q)
        q1 == [q EXCEPT !.items = array]
    IN  IF current # NoSong /\ FindIndex(array, current) > -1
        THEN [q1 EXCEPT !.currentIndex = FindIndex(array, current)]
        ELSE q1

(***************************************************************************)
(* PlaybackQueue: actions, one per method called on `queue`.               *)
(***************************************************************************)
RepeatModes == {"off", "track", "queue"}

\* The indexes a queue row hands to jump and remove, and one on each side.
Indexes == -1 .. MaxItems

\* Arrays passed to enqueueMany.
Batches == UNION {[1 .. n -> Library \cup {NoSong}] : n \in 0 .. 2}

Called(q, method, args) ==
    /\ items' = q.items
    /\ currentIndex' = q.currentIndex
    /\ lastCall' = [method |-> method, args |-> args, result |-> q.result,
                    items |-> items, currentIndex |-> currentIndex]
    /\ Len(q.items) <= MaxItems
    /\ restored = NotRestored
    /\ UNCHANGED <<decVars, pipeVars, engVars, restored, cacheVars>>

Enqueue ==
    \E song \in Library \cup {NoSong} :
        Called(PlaybackQueue_enqueue(Q, song), "enqueue", <<song>>)

EnqueueMany ==
    \E songs \in Batches :
        Called(PlaybackQueue_enqueueMany(Q, songs), "enqueueMany", <<songs>>)

Clear == Called(PlaybackQueue_clear(Q), "clear", << >>)

NextSong ==
    \E repeatMode \in RepeatModes :
        Called(PlaybackQueue_next(Q, repeatMode), "next", <<repeatMode>>)

PreviousSong ==
    \E repeatMode \in RepeatModes :
        Called(PlaybackQueue_previous(Q, repeatMode), "previous", <<repeatMode>>)

Jump ==
    \E index \in Indexes :
        Called(PlaybackQueue_jump(Q, index), "jump", <<index>>)

Remove ==
    \E index \in Indexes :
        Called(PlaybackQueue_remove(Q, index), "remove", <<index>>)

Shuffle ==
    IF Len(items) <= 1
    THEN Called(Q, "shuffle", << >>)
    ELSE \E array \in FisherYates(items, Len(items)) :
             Called(PlaybackQueue_shuffle(Q, array), "shuffle", << >>)

QueueNext ==
    \/ Enqueue
    \/ EnqueueMany
    \/ Clear
    \/ NextSong
    \/ PreviousSong
    \/ Jump
    \/ Remove
    \/ Shuffle

SpecQueue == Init /\ [][QueueNext]_vars

(***************************************************************************)
(* Queue persistence: song objects as SongLibrary.normalize builds them,   *)
(* PlaybackQueue.serialize and load, persistState and restoreState.  A     *)
(* missing property is Undefined; JSON.stringify drops such properties and *)
(* JSON.parse gives them back as missing.                                  *)
(***************************************************************************)
\* x || y
OrElse(x, y) == IF x = Undefined \/ x = "" THEN y ELSE x

\* cleanTitle on the strings of the library below: the last path segment
\* without `.dfpwm`, bracketed parts removed, trimmed.
cleanTitle(raw) ==
    CASE raw = "(intro)" -> ""
      [] raw = "songs/a.dfpwm" -> "a"
      [] raw = "songs/b.dfpwm" -> "b"
      [] raw = "songs/c.dfpwm" -> "c"
      [] raw = "c [live]" -> "c"
      [] OTHER -> raw

\* The entry of songs.json behind each song of Library: one whose title is
\* all brackets, one without a title, one with a bracketed suffix.
LibraryEntry(song) ==
    CASE song = "A" -> [title |-> "(intro)", url |-> "songs/a.dfpwm"]
      [] song = "B" -> [title |-> Undefined, url |-> "songs/b.dfpwm"]
      [] OTHER -> [title |-> "c [live]", url |-> "songs/c.dfpwm"]

\* SongLibrary.normalize(entry, index)
SongLibrary_normalize(entry, index) ==
    LET title == cleanTitle(OrElse(OrElse(entry.title, entry.url),
                                   "Track " \o ToString(index + 1)))
    IN  [id |-> OrElse(entry.url, "song-" \o ToString(index)),
         url |-> entry.url,
         title |-> title,
         rawTitle |-> OrElse(OrElse(entry.title, entry.url), title)]

\* The position of each song in library.songs.
LibraryIndex(song) == IF song = "A" THEN 0 ELSE IF song = "B" THEN 1 ELSE 2

\* The object queue.items holds for a queued song.
SongObject(song) == SongLibrary_normalize(LibraryEntry(song), LibraryIndex(song))

\* The (title, url, rawTitle) of a song object.
Triple(item) == [title |-> item.title, url |-> item.url, rawTitle |-> item.rawTitle]

\* serialize() on the queue as it is.
PlaybackQueue_serialize ==
    [items |-> [k \in 1 .. Len(items) |-> Triple(SongObject(items[k]))],
     currentIndex |-> <<currentIndex>>]

clamp(value, min, max) == Min2(Max2(value, min), max)

\* Mutant of PlaybackQueue_load: rawTitle is item.title || item.rawTitle.
PlaybackQueue_load_TitleFirst(snapshot) ==
    LET loaded == [k \in 1 .. Len(snapshot.items) |->
                      LET item == snapshot.items[k]
                      IN  [title |-> item.title,
                           url |-> item.url,
                           rawTitle |-> OrElse(item.title, item.rawTitle),
                           id |-> OrElse(item.url, "restored-" \o ToString(k - 1))]]
        index == IF snapshot.currentIndex = << >> THEN -1
                 ELSE snapshot.currentIndex[1]
    IN  [items |-> loaded, currentIndex |-> clamp(index, -1, Len(loaded) - 1)]

\* load(snapshot) on a new PlaybackQueue; snapshot.currentIndex is << >>
\* when the property is missing.
PlaybackQueue_load(snapshot) ==
    LET loaded == [k \in 1 .. Len(snapshot.items) |->
                      LET item == snapshot.items[k]
                      IN  [title |-> item.title,
                           url |-> item.url,
                           rawTitle |-> OrElse(item.rawTitle, item.title),
                           id |-> OrElse(item.url, "restored-" \o ToString(k - 1))]]
        index == IF snapshot.currentIndex = << >> THEN -1
                 ELSE snapshot.currentIndex[1]
    IN  [items |-> loaded, currentIndex |-> clamp(index, -1, Len(loaded) - 1)]

\* Snapshots not written by this version of the page: entries with a
\* missing rawTitle or url, any integer currentIndex or none.
ForeignItems ==
    {[title |-> "t", url |-> "u", rawTitle |-> Undefined],
     [title |-> "t", url |-> Undefined, rawTitle |-> "r"]}

ForeignSnapshots ==
    [items : UNION {[1 .. n -> ForeignItems] : n \in 0 .. 2},
     currentIndex : {<< >>} \cup {<<n>> : n \in -3 .. MaxItems}]

\* restoreState() of the next page load on the snapshot found in
\* localStorage.
restoreState(snapshot, own) ==
    /\ ~restored.loaded
    /\ LET q == PlaybackQueue_load(snapshot)
       IN  restored' = [loaded |-> TRUE, own |-> own, items |-> q.items,
                        currentIndex |-> q.currentIndex, snapshot |-> snapshot]
    /\ UNCHANGED <<decVars, pipeVars, engVars, items, currentIndex, lastCall,
                   cacheVars>>

\* The page is reloaded: persistState has stored serialize() after the last
\* change of the queue, and the new page restores it.
Reload == restoreState(PlaybackQueue_serialize, TRUE)

\* A page load that finds a snapshot written elsewhere.  What it restores
\* depends on the snapshot alone, so the step is taken from a page whose
\* own queue was never used.
ReloadForeign ==
    /\ lastCall.method = "constructor"
    /\ \E snapshot \in ForeignSnapshots : restoreState(snapshot, FALSE)

SnapshotNext ==
    \/ QueueNext
    \/ Reload
    \/ ReloadForeign

SpecSnapshot == Init /\ [][SnapshotNext]_vars

(***************************************************************************)
(* The song cache (src/script.js, class SongCache).  An asynchronous       *)
(* function runs from one await to the next in one step; what the awaited  *)
(* operation yields is the environment's choice: a Cache Storage           *)
(* operation succeeds or rejects, a fetch yields a response or rejects.    *)
(***************************************************************************)

\* What the network can answer: the file (its bytes may have changed on the
\* server) or an error page.
NetworkResponses ==
    {[status |-> 200, body |-> "v1"], [status |-> 200, body |-> "v2"],
     [status |-> 404, body |-> "missing"]}

\* What the awaited operations of one step yield.
Envs == [cache : {"ok", "fail"}, net : NetworkResponses \cup {NetworkError}]

\* Response.ok
Ok(resp) == resp.status \in 200 .. 299

\* response.arrayBuffer(): the bytes of the body; an ArrayBuffer has no
\* status.
ArrayBuffer(resp) == [status |-> 0, body |-> resp.body]

\* A function is called, by the page or by the listener `via`: it runs up
\* to its first await, caches.open().
NewCall(fn, via, url, supported) ==
    [NoCall EXCEPT !.fn = fn, !.via = via, !.url = url, !.pc = "open",
                   !.supported = supported]

\* return result
Resolve(c, result) ==
    [c EXCEPT !.pc = "done", !.settled = "resolved", !.result = result]

\* An exception leaves the function: its promise rejects.
Reject(c) == [c EXCEPT !.pc = "done", !.settled = "rejected"]

\* cache.put(url, resp)
CachePut(store, url, resp) == [store EXCEPT ![url] = resp]

\* SongCache.get(url) without the try/catch around cache.put.
SongCache_get_PutUnguarded(c, store, env) ==
    CASE c.pc = "open" ->
            IF ~c.supported
            THEN [call |-> [c EXCEPT !.pc = "fetch", !.fetched = TRUE],
                  store |-> store]
            ELSE IF env.cache = "fail"
            THEN [call |-> Reject(c), store |-> store]
            ELSE [call |-> [c EXCEPT !.pc = "match"], store |-> store]
      [] c.pc = "match" ->
            IF env.cache = "fail"
            THEN [call |-> Reject(c), store |-> store]
            ELSE LET cached == store[c.url]
                 IN  IF cached # NoEntry
                     THEN [call |-> Resolve([c EXCEPT !.cached = cached],
                                            ArrayBuffer(cached)),
                           store |-> store]
                     ELSE [call |-> [c EXCEPT !.pc = "fetch",
                                              !.fetched = TRUE],
                           store |-> store]
      [] c.pc = "fetch" ->
            IF env.net = NetworkError
            THEN [call |-> Reject(c), store |-> store]
            ELSE LET res == env.net
                 IN  IF ~Ok(res)
                     THEN [call |-> Reject([c EXCEPT !.resp = res]),
                           store |-> store]
                     ELSE IF c.supported
                     THEN [call |-> [c EXCEPT !.resp = res, !.pc = "put"],
                           store |-> store]
                     ELSE [call |-> Resolve([c EXCEPT !.resp = res],
                                            ArrayBuffer(res)),
                           store |-> store]
      [] OTHER ->
            IF env.cache = "ok"
            THEN [call |-> Resolve([c EXCEPT !.put = "ok"],
                                   ArrayBuffer(c.resp)),
                  store |-> CachePut(store, c.url,
                                     [status |-> 200, body |-> c.resp.body])]
            ELSE [call |-> Reject([c EXCEPT !.put = "fail"]),
                  store |-> store]

\* SongCache.get(url), from one await to the next: `await this._cache()`,
\* `await cache.match(url)`, `await fetch(url)` with `await
\* res.arrayBuffer()`, and `await cache.put(...)`.  `c.supported` is
\* this.supported: without Cache Storage `cache` is null.
SongCache_get(c, store, env) ==
    CASE c.pc = "open" ->
            IF ~c.supported
            THEN [call |-> [c EXCEPT !.pc = "fetch", !.fetched = TRUE],
                  store |-> store]
            ELSE IF env.cache = "fail"
            THEN [call |-> Reject(c), store |-> store]
            ELSE [call |-> [c EXCEPT !.pc = "match"], store |-> store]
      [] c.pc = "match" ->
            IF env.cache = "fail"
            THEN [call |-> Reject(c), store |-> store]
            ELSE LET cached == store[c.url]
                 IN  IF cached # NoEntry
                     THEN [call |-> Resolve([c EXCEPT !.cached = cached],
                                            ArrayBuffer(cached)),
                           store |-> store]
                     ELSE [call |-> [c EXCEPT !.pc = "fetch",
                                              !.fetched = TRUE],
                           store |-> store]
      [] c.pc = "fetch" ->
            IF env.net = NetworkError
            THEN [call |-> Reject(c), store |-> store]
            ELSE LET res == env.net
                 IN  IF ~Ok(res)
                     THEN [call |-> Reject([c EXCEPT !.resp = res]),
                           store |-> store]
                     ELSE IF c.supported
                     THEN [call |-> [c EXCEPT !.resp = res, !.pc = "put"],
                           store |-> store]
                     ELSE [call |-> Resolve([c EXCEPT !.resp = res],
                                            ArrayBuffer(res)),
                           store |-> store]
      [] OTHER ->
            IF env.cache = "ok"
            THEN [call |-> Resolve([c EXCEPT !.put = "ok"],
                                   ArrayBuffer(c.resp)),
                  store |-> CachePut(store, c.url,
                                     [status |-> 200, body |-> c.resp.body])]
            ELSE [call |-> Resolve([c EXCEPT !.put = "fail"],
                                   ArrayBuffer(c.resp)),
                  store |-> store]

\* SongCache.remove(url): cache.delete(url), when there is a cache and the
\* deletion succeeds.
SongCache_remove(url, store, supported, env) ==
    IF supported /\ env.cache = "ok"
    THEN [store EXCEPT ![url] = NoEntry]
    ELSE store

\* seq without its i-th element.
Without(seq, i) == SubSeq(seq, 1, i - 1) \o SubSeq(seq, i + 1, Len(seq))

\* The list page's variables, which the other pages leave alone.
listVars == <<localSongs, lastSync>>

\* An activation is started.
Begin(fn, via, url, supported) ==
    /\ Len(inflight) < MaxCalls
    /\ inflight' = Append(inflight, NewCall(fn, via, url, supported))
    /\ UNCHANGED <<decVars, pipeVars, engVars, queueVars, cacheStorage, done>>

\* The i-th suspended activation resumes with what it awaited and has
\* become r.call, the cache r.store.
Resumed(i, r) ==
    /\ cacheStorage' = r.store
    /\ IF r.call.pc = "done"
       THEN inflight' = Without(inflight, i) /\ done' = r.call
       ELSE inflight' = [inflight EXCEPT ![i] = r.call] /\ UNCHANGED done
    /\ UNCHANGED <<decVars, pipeVars, engVars, queueVars>>

\* cache.get(song.url) is called (by PlayerEngine.play, or through
\* cache.put(url) by a download).
Get ==
    \E url \in SongUrls, supported \in BOOLEAN :
        Begin("SongCache.get", "page", url, supported) /\ UNCHANGED listVars

\* A suspended SongCache.get resumes.
GetResumes ==
    \E i \in 1 .. Len(inflight), env \in Envs :
        /\ inflight[i].fn = "SongCache.get"
        /\ Resumed(i, SongCache_get(inflight[i], cacheStorage, env))
        /\ UNCHANGED listVars

\* cache.remove(url) is called and completes.
RemoveCached ==
    \E url \in SongUrls, supported \in BOOLEAN, env \in Envs :
        /\ cacheStorage' = SongCache_remove(url, cacheStorage, supported, env)
        /\ cacheStorage' # cacheStorage
        /\ UNCHANGED <<decVars, pipeVars, engVars, queueVars, inflight, done,
                       listVars>>

SongCacheNext ==
    \/ Get
    \/ GetResumes
    \/ RemoveCached

SpecSongCache == Init /\ [][SongCacheNext]_vars

(***************************************************************************)
(* The service worker (src/sw.js): the fetch listener's routes to the      *)
(* song list and the song files, and the message listener.                 *)
(***************************************************************************)

\* The lower-cased extension of the URL's pathname.
Extension(url) == IF url = SONGS_JSON_URL THEN "json" ELSE "dfpwm"

\* isSongAsset(url): p.endsWith('.dfpwm')
isSongAsset(url) == Extension(url) = "dfpwm"

\* new Response('', { status: 504, statusText: 'Offline' })
Offline == [status |-> 504, body |-> ""]

\* new Response('[]', { status: 200, ... })
EmptyList == [status |-> 200, body |-> "[]"]

\* The un-awaited cache.put(request, resp.clone()) of the handlers: the
\* entry is written unless the put rejects, which nobody observes.
PutAside(store, url, resp, env) ==
    IF env.cache = "ok" THEN CachePut(store, url, resp) ELSE store

\* handleSongFile(request), from one await to the next: `await
\* caches.open(SONG_CACHE)`, `await cache.match(request)`, `await
\* fetch(request)`.
handleSongFile(c, store, env) ==
    CASE c.pc = "open" ->
            IF env.cache = "fail"
            THEN [call |-> Reject(c), store |-> store]
            ELSE [call |-> [c EXCEPT !.pc = "match"], store |-> store]
      [] c.pc = "match" ->
            IF env.cache = "fail"
            THEN [call |-> Reject(c), store |-> store]
            ELSE LET cached == store[c.url]
                 IN  IF cached # NoEntry
                     THEN [call |-> Resolve([c EXCEPT !.cached = cached],
                                            cached),
                           store |-> store]
                     ELSE [call |-> [c EXCEPT !.pc = "fetch",
                                              !.fetched = TRUE],
                           store |-> store]
      [] OTHER ->
            LET resp == env.net
            IN  IF resp = NetworkError
                THEN [call |-> Resolve([c EXCEPT !.resp = resp], Offline),
                      store |-> store]
                ELSE IF Ok(resp)
                THEN [call |-> Resolve([c EXCEPT !.resp = resp,
                                                 !.put = env.cache], resp),
                      store |-> PutAside(store, c.url, resp, env)]
                ELSE [call |-> Resolve([c EXCEPT !.resp = resp], resp),
                      store |-> store]

\* handleSongsJson(request), from one await to the next: `await
\* caches.open(SONG_CACHE)`, `await cache.match(request)`, `await
\* fetch(request, { cache: 'no-store' })`.
handleSongsJson(c, store, env) ==
    CASE c.pc = "open" ->
            IF env.cache = "fail"
            THEN [call |-> Reject(c), store |-> store]
            ELSE [call |-> [c EXCEPT !.pc = "match"], store |-> store]
      [] c.pc = "match" ->
            IF env.cache = "fail"
            THEN [call |-> Reject(c), store |-> store]
            ELSE [call |-> [c EXCEPT !.cached = store[c.url],
                                     !.pc = "fetch", !.fetched = TRUE],
                  store |-> store]
      [] OTHER ->
            LET resp == env.net
                fallback == IF c.cached # NoEntry THEN c.cached ELSE EmptyList
            IN  IF resp = NetworkError
                THEN [call |-> Resolve([c EXCEPT !.resp = resp], fallback),
                      store |-> store]
                ELSE IF Ok(resp)
                THEN [call |-> Resolve([c EXCEPT !.resp = resp,
                                                 !.put = env.cache], resp),
                      store |-> PutAside(store, c.url, resp, env)]
                ELSE [call |-> Resolve([c EXCEPT !.resp = resp], fallback),
                      store |-> store]

\* The fetch listener on a GET request that is no navigation: the song
\* list goes to handleSongsJson, a song file to handleSongFile.
FetchEvent ==
    \E url \in Urls :
        /\ IF url = SONGS_JSON_URL
           THEN Begin("handleSongsJson", "fetch", url, TRUE)
           ELSE isSongAsset(url) /\ Begin("handleSongFile", "fetch", url, TRUE)
        /\ UNCHANGED listVars

\* The message listener on { type: 'CACHE_SONG_URL', url }.
CacheSongUrl ==
    \E url \in SongUrls :
        Begin("handleSongFile", "message", url, TRUE) /\ UNCHANGED listVars

\* A suspended handler resumes.
HandlerResumes ==
    \E i \in 1 .. Len(inflight), env \in Envs :
        /\ \/ /\ inflight[i].fn = "handleSongFile"
              /\ Resumed(i, handleSongFile(inflight[i], cacheStorage, env))
           \/ /\ inflight[i].fn = "handleSongsJson"
              /\ Resumed(i, handleSongsJson(inflight[i], cacheStorage, env))
        /\ UNCHANGED listVars

WorkerNext ==
    \/ FetchEvent
    \/ CacheSongUrl
    \/ HandlerResumes

SpecWorker == Init /\ [][WorkerNext]_vars

(***************************************************************************)
(* The list page (src/unnamed/part_000): localSongs and its                *)
(* synchronisation with the song cache.  The service worker's handlers     *)
(* change the cache only in their last step, so here each runs to its end  *)
(* in one step.                                                            *)
(***************************************************************************)

\* isSongUrl(url): new URL(url).pathname.toLowerCase().endsWith('.dfpwm')
isSongUrl(url) == Extension(url) = "dfpwm"

\* What publicSongs can hold: nothing before fetchSongs, then the entries
\* of songs.json.
PublicLists == {<< >>, <<LibraryEntry("A"), LibraryEntry("B")>>}

\* The elements of a sequence.
Elements(seq) == {seq[k] : k \in DOMAIN seq}

\* inferSongMetadata(url): a copy of the public entry with that url, else
\* the url with the title cleaned from its file name.
inferSongMetadata(url, publicSongs) ==
    LET found == {k \in DOMAIN publicSongs : publicSongs[k].url = url}
    IN  IF found # {}
        THEN publicSongs[CHOOSE k \in found : \A j \in found : k <= j]
        ELSE [url |-> url, title |-> cleanTitle(url)]

\* existingMap.get(url) || inferSongMetadata(url): a Map built from an
\* array keeps the last entry of each key.
RecordFor(url, existing, publicSongs) ==
    LET found == {k \in DOMAIN existing : existing[k].url = url}
    IN  IF found # {}
        THEN existing[CHOOSE k \in found : \A j \in found : k >= j]
        ELSE inferSongMetadata(url, publicSongs)

\* cachedUrls.forEach(...) that pushes every cached URL, listed or not.
RECURSIVE PushMissing_NoCheck(_, _, _, _)
PushMissing_NoCheck(list, cachedUrls, existing, publicSongs) ==
    IF cachedUrls = << >>
    THEN list
    ELSE LET url == Head(cachedUrls)
         IN  PushMissing_NoCheck(
                 Append(list, RecordFor(url, existing, publicSongs)),
                 Tail(cachedUrls), existing, publicSongs)

\* cachedUrls.forEach(url => { if (!localSongs.some(...)) localSongs.push(
\* record) }), applied to the filtered list.
RECURSIVE PushMissing(_, _, _, _)
PushMissing(list, cachedUrls, existing, publicSongs) ==
    IF cachedUrls = << >>
    THEN list
    ELSE LET url == Head(cachedUrls)
             listed == \E k \in DOMAIN list : list[k].url = url
         IN  PushMissing(
                 IF listed
                 THEN list
                 ELSE Append(list, RecordFor(url, existing, publicSongs)),
                 Tail(cachedUrls), existing, publicSongs)

\* syncLocalSongsWithCache() once `await caches.open(SONG_CACHE_NAME)` and
\* `await cache.keys()` have settled: `requests` are the URLs of the keys,
\* env.cache = "fail" a rejection of either, `save` whether
\* localStorage.setItem succeeds.  Yields the new localSongs, what the
\* function returns, and how many entries were dropped and pushed.
syncLocalSongsWithCache(songs, requests, publicSongs, env, save) ==
    IF env.cache = "fail"
    THEN [outcome |-> "failed", localSongs |-> songs, result |-> FALSE,
          dropped |-> 0, pushed |-> 0]
    ELSE LET cachedUrls == SelectSeq(requests, isSongUrl)
             cachedSet == Elements(cachedUrls)
             beforeLength == Len(songs)
             InCache(song) == song.url \in cachedSet
             filtered == SelectSeq(songs, InCache)
             final == PushMissing(filtered, cachedUrls, songs, publicSongs)
             changed == Len(filtered) # beforeLength
                            \/ Len(final) # Len(filtered)
         IN  [outcome |-> IF changed /\ save = "fail"
                          THEN "failed" ELSE "synced",
              localSongs |-> final,
              result |-> changed /\ save = "ok",
              dropped |-> beforeLength - Len(filtered),
              pushed |-> Len(final) - Len(filtered)]

\* cache.keys(): the URLs of the entries, in the order they were inserted.
KeyOrders(store) ==
    LET keys == {url \in Urls : store[url] # NoEntry}
    IN  {requests \in [1 .. Cardinality(keys) -> keys] :
            \A j, k \in DOMAIN requests : requests[j] = requests[k] => j = k}

\* A handler of the service worker from its call to its end, every awaited
\* operation yielding what env says.
Handled(url, store, env) ==
    LET fn == IF url = SONGS_JSON_URL THEN "handleSongsJson"
                                      ELSE "handleSongFile"
        Run(c, s) == IF fn = "handleSongsJson"
                     THEN handleSongsJson(c, s, env)
                     ELSE handleSongFile(c, s, env)
        r1 == Run(NewCall(fn, "message", url, TRUE), store)
        r2 == IF r1.call.pc = "done" THEN r1 ELSE Run(r1.call, r1.store)
        r3 == IF r2.call.pc = "done" THEN r2 ELSE Run(r2.call, r2.store)
    IN  r3.store

\* The service worker has handled a request of the page: the
\* CACHE_SONG_URL message cacheSongAsset posted, or the fetch of
\* songs.json by fetchSongs.
WorkerCaches ==
    \E url \in Urls, env \in Envs :
        /\ cacheStorage' = Handled(url, cacheStorage, env)
        /\ cacheStorage' # cacheStorage
        /\ UNCHANGED <<decVars, pipeVars, engVars, queueVars, inflight, done,
                       listVars>>

\* init() or cacheBtn.onclick calls syncLocalSongsWithCache(), which
\* suspends at `await caches.open(...)`.
SyncBegins ==
    /\ lastSync.outcome # "running"
    /\ lastSync' = [NoSync EXCEPT !.outcome = "running"]
    /\ UNCHANGED <<decVars, pipeVars, engVars, queueVars, cacheStorage,
                   inflight, done, localSongs>>

\* The suspended syncLocalSongsWithCache() resumes and runs to its end.
SyncResumes ==
    /\ lastSync.outcome = "running"
    /\ \E requests \in KeyOrders(cacheStorage), publicSongs \in PublicLists,
          env \in Envs, save \in {"ok", "fail"} :
          LET r == syncLocalSongsWithCache(localSongs, requests, publicSongs,
                                           env, save)
          IN  /\ localSongs' = r.localSongs
              /\ lastSync' = [outcome |-> r.outcome, result |-> r.result,
                              dropped |-> r.dropped, pushed |-> r.pushed]
    /\ UNCHANGED <<decVars, pipeVars, engVars, queueVars, cacheStorage,
                   inflight, done>>

\* removeBtn.onclick with the k-th entry of the local list selected: the
\* entry is spliced out and removeSongFromCache deletes its cache entry,
\* unless the deletion fails.
RemoveLocal ==
    \E k \in DOMAIN localSongs, env \in Envs :
        /\ lastSync.outcome # "running"
        /\ localSongs' = Without(localSongs, k)
        /\ cacheStorage' = IF env.cache = "ok"
                           THEN [cacheStorage EXCEPT
                                    ![localSongs[k].url] = NoEntry]
                           ELSE cacheStorage
        /\ UNCHANGED <<decVars, pipeVars, engVars, queueVars, inflight, done,
                       lastSync>>

\* The song cache is shared with the player page, whose cache.remove(url)
\* deletes entries behind the list page's back.
ListNext ==
    \/ SyncBegins
    \/ SyncResumes
    \/ RemoveLocal
    \/ WorkerCaches
    \/ RemoveCached

SpecList == Init /\ [][ListNext]_vars

(***************************************************************************)
(* Decoder properties.                                                     *)
(***************************************************************************)

\* C1: chunking invariance.  Once a byte sequence has been fed to one fresh
\* instance in consecutive chunks (empty ones included), the concatenated
\* outputs and the final instance state equal those of a single decode of
\* the whole sequence on a fresh instance.
C1_ChunkingInvariance ==
    fed = Len(stream) =>
        LET whole == decode(NewDFPWM, stream)
        IN  acc = whole.out /\ dec = whole.state

\* A sequence of at least two bytes fully fed, the last chunk being a
\* proper non-empty part of it.
C1_Witness ==
    /\ fed = Len(stream)
    /\ Len(stream) >= 2
    /\ Len(chunk) >= 1
    /\ Len(chunk) < Len(stream)
    /\ dec.lastbit

\* C2: length law.  A decode call on a chunk of n bytes returns exactly 8*n
\* samples.
C2_LengthLaw == Len(out) = 8 * Len(chunk)

\* A call on a multi-byte chunk, on an instance that is no longer fresh.
C2_Witness == Len(chunk) >= 2 /\ Len(out) = 8 * Len(chunk) /\ pre # NewDFPWM

\* C3: a decode call on an empty chunk returns an empty array and leaves
\* response, level, lastbit, flastlevel and lpflevel as they were.
C3_EmptyChunkNoChange == chunk = << >> => (out = << >> /\ dec = pre)

\* An empty chunk handed to an instance whose filter has left its initial
\* state.
C3_Witness ==
    /\ chunk = << >>
    /\ pre.response > MIN_RESPONSE
    /\ pre.lpflevel # pre.level
    /\ pre.lastbit

\* C4: range law.  Every emitted sample is in [-1.0, 1.0]: the lpflevel
\* behind it is in [-128, 128].
C4_RangeLaw ==
    /\ \A i \in 1 .. Len(out) : -SCALE_DEN <= out[i] /\ out[i] <= SCALE_DEN
    /\ -SCALE_DEN <= dec.lpflevel /\ dec.lpflevel <= SCALE_DEN

\* A call that emitted the sample -1.0.
C4_Witness == \E i \in 1 .. Len(out) : out[i] = -SCALE_DEN

\* C5 as stated: response is in [8, 1023] in every reachable state, the
\* freshly constructed one included.
C5_ResponseInRange_Original ==
    MIN_RESPONSE <= dec.response /\ dec.response <= MAX_RESPONSE

\* C5 amended: response is 0 (as the constructor leaves it) or in
\* [8, 1023]; once it has left 0 it stays in [8, 1023].
C5_ResponseZeroOrInRange ==
    /\ \/ dec.response = 0
       \/ (MIN_RESPONSE <= dec.response /\ dec.response <= MAX_RESPONSE)
    /\ pre.response # 0 => dec.response # 0

\* A call during which the clamp held response at MIN_RESPONSE, and one
\* that brought it to MAX_RESPONSE.
C5_Witness ==
    \/ /\ chunk = <<85>>
       /\ pre.response = MIN_RESPONSE + 1
       /\ dec.response = MIN_RESPONSE
    \/ dec.response = MAX_RESPONSE

(***************************************************************************)
(* Pipeline properties.                                                    *)
(***************************************************************************)
Calls == 1 .. Len(inv)

\* What a fresh decoder returns for the first n bytes of each song.
Reference ==
    [song \in Songs |->
        [n \in 0 .. Len(SongBytes(song)) |->
            decode(NewDFPWM, SubSeq(SongBytes(song), 1, n)).out]]
WholeSong(song) == Reference[song][Len(SongBytes(song))]

Superseded(i) == inv[i].playId # playbackId
InFlight(i) == inv[i].pc \in {"fetch", "read"}

\* C6: once a newer playback id has been issued, a resumption of the
\* superseded playUrlStreamed creates no source (no playBuffered, nothing
\* handed to the sink) and leaves currentSource, isPlaying, isPaused,
\* startTime, totalDuration, currentSong and any currentFetchController
\* that is not its own untouched.
C6_SupersededResumeNoOp ==
    [][\A i \in Calls :
          (Superseded(i) /\ Resume(i)) =>
              /\ sources' = sources
              /\ currentSource' = currentSource
              /\ isPlaying' = isPlaying
              /\ isPaused' = isPaused
              /\ startTime' = startTime
              /\ totalDuration' = totalDuration
              /\ currentSong' = currentSong
              /\ playbackId' = playbackId
              /\ (currentFetchController # i =>
                      currentFetchController' = currentFetchController)]_vars

\* A superseded invocation resumed at end-of-stream and returned without a
\* source having been created for it.
C6_Witness ==
    \E i \in Calls :
        /\ inv[i].pc = "returned"
        /\ inv[i].settled = "done"
        /\ Superseded(i)
        /\ \A k \in 1 .. Len(sources) : sources[k].playId # inv[i].playId

\* C7: track isolation.  Every buffer handed to the sink is the decoding of
\* its own song's bytes by a fresh decoder, whatever other invocations were
\* doing in between.
C7_TrackIsolation ==
    \A k \in 1 .. Len(sources) :
        sources[k].buffer = WholeSong(sources[k].song)

\* B's buffer reached the sink while an invocation for A, requested
\* earlier and superseded mid-stream, still holds a partly fed decoder.
C7_Witness ==
    \E k \in 1 .. Len(sources), i \in Calls :
        /\ sources[k].song = "B"
        /\ inv[i].song = "A"
        /\ inv[i].playId < sources[k].playId
        /\ inv[i].pc = "read"
        /\ inv[i].decoder # NewDFPWM
        /\ inv[i].sent < Len(SongBytes("A"))

\* C8: the chunks an invocation has accumulated are the decode outputs of
\* the byte chunks in arrival order, totalSamples is 8 times the bytes
\* received, and the buffer given to playBuffered at end-of-stream is their
\* concatenation, of 8 samples per byte of the body, totalDuration being
\* that sample count over SAMPLE_RATE.
C8_OrderedAccumulation ==
    /\ \A i \in Calls :
           inv[i].pc = "read" =>
               LET got == inv[i].sent - Len(inv[i].value)
               IN  /\ inv[i].totalSamples = 8 * got
                   /\ Concat(inv[i].chunks) = Reference[inv[i].song][got]
    /\ \A k \in 1 .. Len(sources) :
           /\ sources[k].length = 8 * Len(SongBytes(sources[k].song))
           /\ Len(sources[k].buffer) = sources[k].length
    /\ currentSource # 0 => totalDuration = sources[currentSource].length

\* A whole body has been played, and an invocation holding the current id
\* has accumulated a body that arrived in two chunks and is at
\* end-of-stream.
C8_Witness ==
    /\ \E k \in 1 .. Len(sources) : sources[k].length = 16
    /\ \E i \in Calls :
           /\ inv[i].pc = "read"
           /\ inv[i].settled = "done"
           /\ ~Superseded(i)
           /\ Len(inv[i].chunks) = 2
           /\ inv[i].totalSamples = 16

\* C9: prompt cancellation.  A superseded invocation that resumes in its
\* read loop returns in that very step, with nothing handed to the sink:
\* it decodes at most the one chunk it resumed with; and no read of a
\* superseded invocation is left pending for the transport to fulfil.
C9_PromptCancellation ==
    [][\A i \in Calls :
          /\ (Superseded(i) /\ inv[i].pc = "read" /\ Resume(i)) =>
                 (inv'[i].pc = "returned" /\ sources' = sources)
          /\ (Superseded(i) /\ InFlight(i)) => inv[i].settled # "pending"]_vars

\* A superseded invocation returned right after decoding a chunk.
C9_Witness ==
    \E i \in Calls :
        /\ inv[i].pc = "returned"
        /\ inv[i].settled = "chunk"

\* C10: after stop() or the start of a new playUrlStreamed, every
\* controller created for an earlier playback id is aborted or belongs to
\* a finished call, and currentFetchController is null or the controller
\* of the request holding the current id.
C10_OldControllersAborted ==
    /\ \A i \in Calls :
           Superseded(i) => (inv[i].aborted \/ ~InFlight(i))
    /\ currentFetchController # 0 =>
           /\ currentFetchController \in Calls
           /\ ~Superseded(currentFetchController)
           /\ currentFetchController = Len(inv)

\* An invocation still in flight has been aborted while a newer request
\* holds currentFetchController; and another was aborted by stop().
C10_Witness ==
    /\ \E i \in Calls :
           /\ InFlight(i) /\ inv[i].aborted /\ Superseded(i)
           /\ currentFetchController = Len(inv)
           /\ currentFetchController # i
           /\ InFlight(Len(inv))

\* C11: an invocation that still holds the current id and resumes from a
\* failed fetch, a response whose status is not OK, or a failed read,
\* rejects in that step; no source is created for it, then or ever, and
\* the sink is left as it was.
C11_CurrentFailureRejects ==
    [][\A i \in Calls :
          /\ (/\ ~Superseded(i)
              /\ InFlight(i)
              /\ inv[i].settled \in {"error", "notok"}
              /\ Resume(i)) =>
                 /\ inv'[i].pc = "threw"
                 /\ sources' = sources
                 /\ currentSource' = currentSource
          /\ inv[i].pc \in {"threw", "rejected"} =>
                 \A k \in 1 .. Len(sources') :
                     sources'[k].playId # inv[i].playId]_vars

\* One request was rejected on a response that was not OK, another on a
\* network error, and neither has a source.
C11_Witness ==
    \E i \in Calls, j \in Calls :
        /\ inv[i].pc \in {"threw", "rejected"} /\ inv[i].settled = "notok"
        /\ inv[j].pc \in {"threw", "rejected"} /\ inv[j].settled = "error"
        /\ \A k \in 1 .. Len(sources) :
               sources[k].playId \notin {inv[i].playId, inv[j].playId}

\* C12: a superseded invocation never rejects, whatever the promise it
\* awaits settled to.
C12_SupersededNeverRejects ==
    [][\A i \in Calls :
          (Superseded(i) /\ Resume(i)) => inv'[i].pc # "threw"]_vars

\* C16: at most one source is started and neither stopped nor ended, and
\* currentSource refers to it.
C16_SingleSource ==
    /\ Cardinality({k \in 1 .. Len(sources) : sources[k].state = "started"}) <= 1
    /\ \A k \in 1 .. Len(sources) :
           sources[k].state = "started" => currentSource = k

\* The request holding the current id has run to the end of its stream and
\* handed its buffer to playBuffered.
StreamCompleted ==
    \E i \in Calls, k \in 1 .. Len(sources) :
        /\ inv[i].playId = playbackId
        /\ inv[i].pc = "returned"
        /\ sources[k].playId = playbackId

\* The globals as stop() leaves them.
Stopped ==
    /\ currentFetchController = 0
    /\ currentSource = 0
    /\ ~isPlaying
    /\ ~isPaused
    /\ currentSong = NoSong

\* C17: stop() after a completed stream finds currentFetchController
\* null, aborts nothing and leaves every invocation and every sample
\* buffer as it was; stop() in the state a stop() has left changes
\* playbackId and nothing else.
C17_StopAfterCompletion ==
    [][/\ (StreamCompleted /\ Stop) =>
              /\ currentFetchController = 0
              /\ inv' = inv
              /\ Len(sources') = Len(sources)
              /\ \A k \in 1 .. Len(sources) :
                     /\ sources'[k].buffer = sources[k].buffer
                     /\ sources'[k].length = sources[k].length
              /\ Stopped'
       /\ (Stopped /\ Stop) =>
              /\ playbackId' = playbackId + 1
              /\ UNCHANGED <<currentFetchController, currentSource, isPlaying,
                             isPaused, startTime, totalDuration, currentSong,
                             queueSongs, inv, sources>>]_vars

\* A whole song was handed to the sink and stopped, and stop() ran once
\* more: the id is two past the request's and the buffer is still the
\* decoding of the song.
C17_Witness ==
    \E k \in 1 .. Len(sources) :
        /\ sources[k].state = "stopped"
        /\ sources[k].buffer = WholeSong(sources[k].song)
        /\ sources[k].length = 16
        /\ playbackId = sources[k].playId + 2
        /\ \A i \in Calls : inv[i].playId <= sources[k].playId
        /\ Stopped

\* The decoder after 0, 1, ..., n further bits equal to bit.
RECURSIVE RunTrace(_, _, _)
RunTrace(s, bit, n) ==
    IF n = 0 THEN <<s>>
    ELSE <<s>> \o RunTrace(DecodeBit(s, bit), bit, n - 1)

\* How far level is from the target of bit.
Dist(level, bit) == IF bit THEN 127 - level ELSE level + 128

\* C18: the integrator reaches its target.  Over the 8 bits of a byte 0x00
\* or 0xFF decoded from any reachable state, level never passes the target
\* and never moves away from it; once at the target it stays there; and
\* from the second bit of the run on, each bit either brings level closer
\* or raises response, which no bit raises above MAX_RESPONSE: level is at
\* the target after at most 256 * 1024 bits of the run.
C18_IntegratorReachesTarget ==
    chunk \in {<<0>>, <<255>>} =>
        LET bit == (chunk[1] = 255)
            tr == RunTrace(pre, bit, 8)
        IN  /\ tr[9] = dec
            /\ \A n \in 1 .. 8 :
                   LET a == tr[n]
                       b == tr[n + 1]
                   IN  /\ Dist(b.level, bit) >= 0
                       /\ Dist(b.level, bit) <= Dist(a.level, bit)
                       /\ b.response <= MAX_RESPONSE
                       /\ Dist(a.level, bit) = 0 => Dist(b.level, bit) = 0
                       /\ (a.lastbit = bit /\ Dist(a.level, bit) > 0) =>
                              \/ Dist(b.level, bit) < Dist(a.level, bit)
                              \/ b.response > a.response

\* A byte of zero bits has just taken level from above -128 to -128, with
\* response past RESP_HALF, and the decoder was already inside a run of
\* zero bits before it.
C18_Witness ==
    /\ chunk = <<0>>
    /\ ~pre.lastbit
    /\ pre.level > -128
    /\ dec.level = -128
    /\ dec.response > RESP_HALF

\* C19 as stated: the byte 0xFF on a fresh decoder yields 8 samples that
\* never decrease, the first of them above 0.
C19_AllOnes_Original ==
    (pre = NewDFPWM /\ chunk = <<255>>) =>
        /\ Len(out) = 8
        /\ \A n \in 1 .. 7 : out[n] <= out[n + 1]
        /\ out[1] > 0

\* C19, amended: the byte 0xFF on a fresh decoder yields 8 samples that
\* never decrease; the first two are 0, the third is the first above 0 and
\* the last is 6/128.
C19_AllOnes ==
    (pre = NewDFPWM /\ chunk = <<255>>) =>
        /\ Len(out) = 8
        /\ \A n \in 1 .. 7 : out[n] <= out[n + 1]
        /\ out[1] = 0
        /\ out[2] = 0
        /\ out[3] > 0
        /\ out[8] = 6

\* The first call on a fresh decoder was decode([0xFF]).
C19_Witness ==
    /\ pre = NewDFPWM
    /\ chunk = <<255>>
    /\ out = <<0, 0, 1, 2, 3, 4, 5, 6>>
    /\ dec.level = 7

\* C20: the byte 0x00 on a fresh decoder yields 8 samples that never
\* increase, none above 0 and the last below 0.
C20_AllZero ==
    (pre = NewDFPWM /\ chunk = <<0>>) =>
        /\ Len(out) = 8
        /\ \A n \in 1 .. 7 : out[n] >= out[n + 1]
        /\ \A n \in 1 .. 8 : out[n] <= 0
        /\ out[8] < 0

\* The first call on a fresh decoder was decode([0x00]).
C20_Witness ==
    /\ pre = NewDFPWM
    /\ chunk = <<0>>
    /\ out = <<0, -1, -2, -3, -4, -5, -6, -8>>
    /\ dec.level = -9

\* stop() was the last call that advanced playbackId: no invocation and no
\* source carries the current id.
AfterStop ==
    /\ playbackId > 0
    /\ \A i \in Calls : inv[i].playId # playbackId
    /\ \A k \in 1 .. Len(sources) : sources[k].playId # playbackId

\* A step that is not a user request: a promise settles, a continuation or
\* a catch block runs, or a source plays to its end.
CallbackStep ==
    \/ \E i \in Calls : FetchSettles(i) \/ ReadSettles(i) \/ Resume(i) \/ QueueCatch(i)
    \/ \E k \in 1 .. Len(sources) : SourceEnded(k)

\* C27: after stop(), a step that is not a user request starts no
\* playUrlStreamed and no source, leaves the queue and playbackId as they
\* are and isPlaying false.
C27_NothingStartsAfterStop ==
    [][(AfterStop /\ CallbackStep) =>
          /\ queueSongs' = queueSongs
          /\ Len(inv') = Len(inv)
          /\ Len(sources') = Len(sources)
          /\ playbackId' = playbackId
          /\ ~isPlaying']_vars

BitOf(B, k) == ((B \div (2 ^ k)) % 2) = 1

\* The decoder before bit 0 of byte B and after each of the bits 0 .. n-1,
\* taken in that order.
RECURSIVE BitTrace(_, _, _)
BitTrace(s, B, n) ==
    IF n = 0 THEN <<s>>
    ELSE LET tr == BitTrace(s, B, n - 1)
         IN  Append(tr, DecodeBit(tr[n], BitOf(B, n - 1)))

\* The signed 32-bit range, bounds excluded.
InsideInt32(x) == (-2147483647 - 1) < x /\ x < 2147483647

\* C21: no 32-bit overflow.  In the state before each bit of a decoded
\* byte and in the state after the last, and for either value of the
\* next bit, target - level and blended - lpflevel are within [-255, 255]
\* and the two sums that are shifted are strictly inside the signed 32-bit
\* range.
C21_NoOverflow ==
    Len(chunk) = 1 =>
        LET tr == BitTrace(pre, chunk[1], 8)
        IN  /\ tr[9] = dec
            /\ \A n \in 1 .. 9, bit \in BOOLEAN :
                   LET a == tr[n]
                       target == IF bit THEN 127 ELSE -128
                       level == Integrate(a.response, a.level, target)
                       blended == Blend(bit = a.lastbit, a.flastlevel, level)
                       d1 == target - a.level
                       d2 == blended - a.lpflevel
                   IN  /\ -255 <= d1 /\ d1 <= 255
                       /\ -255 <= d2 /\ d2 <= 255
                       /\ InsideInt32(a.response * d1 + RESP_HALF)
                       /\ InsideInt32(LPF_STRENGTH * d2 + 128)

\* A 1-bit met level at the negative rail with response at MAX_RESPONSE:
\* the delta was 255 and the sum 1023 * 255 + 512.
C21_Witness ==
    /\ chunk = <<255>>
    /\ pre.level = -128
    /\ pre.response = MAX_RESPONSE
    /\ dec.level = 127

\* C22: bits are consumed LSB-first, 8 per byte.  A decode call on the one
\* byte B returns the lpflevel after each of the bits (B >> 0) & 1, ...,
\* (B >> 7) & 1 applied in that order, and leaves the state after the last.
C22_LsbFirst ==
    Len(chunk) = 1 =>
        LET tr == BitTrace(pre, chunk[1], 8)
        IN  /\ dec = tr[9]
            /\ out = [k \in 1 .. 8 |-> tr[k + 1].lpflevel]

\* The byte 0x55 was decoded on a used decoder: its bit 0 is 1, its bit 7,
\* consumed last, is 0.
C22_Witness ==
    /\ chunk = <<85>>
    /\ pre # NewDFPWM
    /\ pre.response > MIN_RESPONSE
    /\ ~dec.lastbit
    /\ out[1] # out[8]

\* C25: after every bit level and lpflevel are in [-128, 127], so every
\* sample is in [-1.0, 127/128].
C25_LevelInRange ==
    /\ Len(chunk) = 1 =>
           LET tr == BitTrace(pre, chunk[1], 8)
           IN  \A n \in 1 .. 9 :
                   /\ -128 <= tr[n].level /\ tr[n].level <= 127
                   /\ -128 <= tr[n].lpflevel /\ tr[n].lpflevel <= 127
    /\ -128 <= dec.level /\ dec.level <= 127
    /\ \A n \in 1 .. Len(out) : -128 <= out[n] /\ out[n] <= 127

\* level arrived at 127 through the `level === target - 1` correction,
\* and the decoder has emitted the sample 127/128.
C25_Witness ==
    /\ chunk = <<255>>
    /\ pre.level < 127
    /\ dec.level = 127
    /\ dec.response < RESP_HALF
    /\ \E n \in 1 .. Len(out) : out[n] = 127

\* C26: bit by bit, response is 0 or in [8, 1023].  While it is 0 the
\* decoder is as constructed apart from lastbit, it stays 0 exactly on a
\* bit that differs from its predecessor, and level, lpflevel and the
\* sample of such a bit are 0; once in [8, 1023] it stays there.
C26_ResponseZeroUntilRepeat ==
    Len(chunk) = 1 =>
        LET tr == BitTrace(pre, chunk[1], 8)
        IN  /\ tr[9] = dec
            /\ \A n \in 1 .. 8 :
                   LET a == tr[n]
                       b == tr[n + 1]
                       bit == BitOf(chunk[1], n - 1)
                   IN  /\ \/ b.response = 0
                          \/ MIN_RESPONSE <= b.response /\ b.response <= MAX_RESPONSE
                       /\ a.response = 0 =>
                              /\ [a EXCEPT !.lastbit = FALSE] = NewDFPWM
                              /\ (b.response = 0) <=> (bit # a.lastbit)
                       /\ b.response = 0 =>
                              /\ b.level = 0
                              /\ b.lpflevel = 0
                              /\ out[n] = 0
                       /\ a.response # 0 => b.response >= MIN_RESPONSE

\* The byte 0x55 on a fresh decoder: every bit differs from the one before
\* it, response is still 0 after the byte and all 8 samples are 0.
C26_Witness ==
    /\ chunk = <<85>>
    /\ pre = NewDFPWM
    /\ dec.response = 0
    /\ out = <<0, 0, 0, 0, 0, 0, 0, 0>>

\* C38: before and after every decode call flastlevel equals level, and on
\* a bit that differs from its predecessor the low-pass input is the
\* rounded average (previous level + this level + 1) >> 1.
C38_FlastlevelIsLevel ==
    /\ pre.flastlevel = pre.level
    /\ dec.flastlevel = dec.level
    /\ Len(chunk) = 1 =>
           LET tr == BitTrace(pre, chunk[1], 8)
           IN  /\ tr[9] = dec
               /\ \A n \in 1 .. 8 :
                      LET a == tr[n]
                          b == tr[n + 1]
                      IN  /\ b.flastlevel = b.level
                          /\ BitOf(chunk[1], n - 1) # a.lastbit =>
                                 out[n] = LowPass(a.lpflevel,
                                                  Sar(a.level + b.level + 1, 1))

\* The byte 0x55 on a decoder whose level has moved away from 0: the first
\* bit differs from its predecessor, the level changes on it and the sample
\* is filtered from the average of the two levels.
C38_Witness ==
    /\ chunk = <<85>>
    /\ ~pre.lastbit
    /\ pre.level < -1
    /\ pre.response > MIN_RESPONSE
    /\ BitTrace(pre, 85, 1)[2].level > pre.level + 1
    /\ dec.flastlevel = dec.level

(***************************************************************************)
(* PlayerEngine properties.                                                *)
(***************************************************************************)
EngineSuperseded(i) == plays[i].rid # player.requestId

\* C13: a play() invocation whose rid is no longer requestId changes
\* neither status, objectUrl, audio.src nor mediaSession when it resumes,
\* and dispatches no status event.
C13_SupersededPlayInert ==
    [][\A i \in EnginePlays :
          (EngineSuperseded(i) /\ EngineResume(i)) =>
              /\ player'.status = player.status
              /\ player'.objectUrl = player.objectUrl
              /\ audio'.src = audio.src
              /\ mediaSession' = mediaSession
              /\ \A n \in 1 .. Len(emitted') : emitted'[n].type # "status"]_vars

\* C14: a superseded play() invocation dispatches no 'error' event and no
\* status event carrying an error, and its promise is not rejected into
\* the catch of playSong.
C14_SupersededNoError ==
    [][\A i \in EnginePlays :
          (EngineSuperseded(i) /\ EngineResume(i)) =>
              /\ \A n \in 1 .. Len(emitted') :
                     emitted'[n].type # "error" /\ emitted'[n].extra # "error"
              /\ plays'[i].pc # "caught"]_vars

\* C15: playbackId and requestId never decrease; every step that starts a
\* request or runs stop() increases the counter; the ids of all
\* invocations are distinct, and at most one invocation in flight holds
\* the current value of the counter.
C15_CountersIncrease ==
    [][/\ playbackId' >= playbackId
       /\ player'.requestId >= player.requestId
       /\ (Len(inv') > Len(inv) \/ Stop) => playbackId' > playbackId
       /\ (Len(plays') > Len(plays) \/ StopClick) =>
              player'.requestId > player.requestId
       /\ \A i, j \in 1 .. Len(inv') :
              i # j => inv'[i].playId # inv'[j].playId
       /\ \A i, j \in 1 .. Len(plays') :
              i # j => plays'[i].rid # plays'[j].rid
       /\ Cardinality({i \in 1 .. Len(inv') :
                          /\ inv'[i].pc \in {"fetch", "read"}
                          /\ inv'[i].playId = playbackId'}) <= 1
       /\ Cardinality({i \in 1 .. Len(plays') :
                          /\ plays'[i].pc \in {"get", "decode", "audioplay"}
                          /\ plays'[i].rid = player'.requestId}) <= 1]_vars

\* Two legacy invocations are in flight, the older with a smaller id that
\* is no longer current, the newer holding playbackId, two stop() calls
\* having advanced the counter as well.
C15_Witness ==
    \E i, j \in Calls :
        /\ InFlight(i) /\ InFlight(j)
        /\ inv[i].playId < inv[j].playId
        /\ inv[j].playId = playbackId
        /\ playbackId = 4

\* The WAV data dfpwmBufferToObjectUrl produces for a song's bytes.
SongWav(song) == float32ToWavBuffer(dfpwmBufferToFloat32(SongBytes(song)))

\* No play() invocation is between its first await and its end.
EngineSettled == \A i \in EnginePlays : ~EngineInFlight(i)

\* The invocation of the latest request ran to the end of its try block.
LatestPlaySucceeded ==
    \E j \in EnginePlays :
        plays[j].rid = player.requestId /\ plays[j].pc = "resolved"

\* C23: once no play() invocation is in flight and the invocation of the
\* latest request has resolved, audio.src is the engine's live object URL
\* and its WAV is the one decoded from the bytes of the song requested last.
C23_LatestRequestWins ==
    (EngineSettled /\ LatestPlaySucceeded) =>
        /\ player.currentSong \in Songs
        /\ audio.src # 0
        /\ audio.src = player.objectUrl
        /\ ~urls[audio.src].revoked
        /\ urls[audio.src].wav = SongWav(player.currentSong)

\* play(A) loaded its URL and awaited audio.play(); play(B) then loaded
\* its own URL, which rejected A's pending audio.play(), so A finished in
\* its catch block after B's URL was set; B's audio.play() then resolved.
C23_Witness ==
    /\ Len(plays) = 2
    /\ plays[1].pc = "caught"
    /\ plays[2].pc = "resolved"
    /\ player.requestId = 2
    /\ player.currentSong = "B"
    /\ Len(urls) = 2
    /\ audio.src = 2
    /\ urls[1].wav = SongWav("A")
    /\ urls[1].revoked

\* C24: a step of play() that dispatches a status event with status
\* 'playing' leaves as audio.src a URL whose WAV was decoded from the song
\* the event reports.
C24_PlayingSongIsLoaded ==
    [][\A i \in EnginePlays :
          EngineResume(i) =>
              \A n \in 1 .. Len(emitted') :
                  (emitted'[n].type = "status" /\ emitted'[n].status = "playing")
                      => /\ emitted'[n].song \in Songs
                         /\ audio'.src # 0
                         /\ urls'[audio'.src].wav = SongWav(emitted'[n].song)]_vars

\* stop() ran in the last step: it alone dispatches a status event with
\* status 'idle' and no error.
StopJustRan ==
    \E n \in 1 .. Len(emitted) :
        /\ emitted[n].type = "status"
        /\ emitted[n].status = "idle"
        /\ emitted[n].extra = "none"

\* C39: every object URL created is the engine's objectUrl or has been
\* revoked, the only other one being the URL a play() that still holds the
\* current requestId has just created and sets in its next step; after
\* stop() objectUrl is null and every URL is revoked.
C39_ObjectUrlHygiene ==
    /\ \A u \in 1 .. Len(urls) :
           \/ u = player.objectUrl
           \/ urls[u].revoked
           \/ \E i \in EnginePlays :
                  /\ plays[i].pc = "decode"
                  /\ plays[i].value = u
                  /\ plays[i].rid = player.requestId
    /\ EngineSettled =>
           \A u \in 1 .. Len(urls) : u = player.objectUrl \/ urls[u].revoked
    /\ StopJustRan =>
           /\ player.objectUrl = 0
           /\ audio.src = 0
           /\ \A u \in 1 .. Len(urls) : urls[u].revoked

\* Two songs were loaded one after the other and stop() was called: both
\* URLs are revoked and objectUrl is null.
C39_Witness ==
    /\ StopJustRan
    /\ Len(urls) = 2
    /\ urls[1].revoked
    /\ urls[2].revoked
    /\ player.objectUrl = 0
    /\ EngineSettled

(***************************************************************************)
(* PlaybackQueue properties.                                               *)
(***************************************************************************)
\* The queue as it was when the last method was called.
Before == [items |-> lastCall.items, currentIndex |-> lastCall.currentIndex,
           result |-> Undefined]

\* C28: -1 <= currentIndex < items.length, and currentIndex is -1 exactly
\* when items is empty, after every sequence of enqueue, enqueueMany, next,
\* previous, jump, remove, clear and shuffle on a new queue.
C28_IndexInvariant ==
    /\ -1 <= currentIndex
    /\ currentIndex < Len(items)
    /\ (currentIndex = -1) <=> (items = << >>)

\* remove(2) took the last of three items while it was current: the new
\* last item, at index 1, is current.
C28_Witness ==
    /\ lastCall.method = "remove"
    /\ Len(lastCall.items) = 3
    /\ lastCall.currentIndex = 2
    /\ lastCall.args = <<2>>
    /\ Len(items) = 2
    /\ currentIndex = 1

\* C29: remove(i) with 0 <= i < items.length takes out exactly the item at
\* i and keeps the others in order; for i other than currentIndex
\* getCurrent() returns the same item as before; for i = currentIndex the
\* item that followed is current, or the new last item if the removed one
\* was last (none if the queue became empty).
C29_RemoveKeepsCurrent ==
    (lastCall.method = "remove"
        /\ 0 <= lastCall.args[1] /\ lastCall.args[1] < Len(lastCall.items)) =>
        LET i == lastCall.args[1]
            old == lastCall.items
            now == [items |-> items, currentIndex |-> currentIndex]
        IN  /\ Len(items) = Len(old) - 1
            /\ \A k \in 0 .. Len(items) - 1 :
                   ItemAt(items, k) = ItemAt(old, IF k < i THEN k ELSE k + 1)
            /\ i # lastCall.currentIndex =>
                   PlaybackQueue_getCurrent(now) = PlaybackQueue_getCurrent(Before)
            /\ i = lastCall.currentIndex =>
                   IF i + 1 < Len(old)
                   THEN /\ currentIndex = i
                        /\ PlaybackQueue_getCurrent(now) = ItemAt(old, i + 1)
                   ELSE IF Len(items) > 0
                   THEN /\ currentIndex = Len(items) - 1
                        /\ PlaybackQueue_getCurrent(now) = ItemAt(old, i - 1)
                   ELSE PlaybackQueue_getCurrent(now) = NoSong

\* remove(0) on the queue A, B, C with C current: B, C are left and C is
\* still current, at index 1.
C29_Witness ==
    /\ lastCall.method = "remove"
    /\ lastCall.args = <<0>>
    /\ lastCall.items = <<"A", "B", "C">>
    /\ lastCall.currentIndex = 2
    /\ items = <<"B", "C">>
    /\ currentIndex = 1

\* C30: next on a non-empty queue returns the current item and keeps
\* currentIndex with repeat 'track'; otherwise it moves to the following
\* item and returns it; at the last item it moves to index 0 with repeat
\* 'queue' and returns null, keeping currentIndex, with repeat 'off'.
\* previous at index 0 stays at index 0 and otherwise never moves up.
C30_NextAndPrevious ==
    /\ (lastCall.method = "next" /\ Len(lastCall.items) > 0) =>
           LET repeatMode == lastCall.args[1]
               cur == lastCall.currentIndex
           IN  /\ items = lastCall.items
               /\ IF repeatMode = "track" /\ cur # -1
                  THEN currentIndex = cur
                           /\ lastCall.result = ItemAt(items, cur)
                  ELSE IF cur + 1 < Len(items)
                  THEN currentIndex = cur + 1
                           /\ lastCall.result = ItemAt(items, cur + 1)
                  ELSE IF repeatMode = "queue"
                  THEN currentIndex = 0 /\ lastCall.result = ItemAt(items, 0)
                  ELSE currentIndex = cur /\ lastCall.result = NoSong
    /\ (lastCall.method = "previous" /\ Len(lastCall.items) > 0) =>
           /\ items = lastCall.items
           /\ lastCall.currentIndex = 0 =>
                  currentIndex = 0 /\ lastCall.result = ItemAt(items, 0)
           /\ lastCall.currentIndex >= 0 => currentIndex <= lastCall.currentIndex
           /\ lastCall.result = ItemAt(items, currentIndex)

\* next('off') at the last of three items returned null and left
\* currentIndex at 2.
C30_Witness ==
    /\ lastCall.method = "next"
    /\ lastCall.args = <<"off">>
    /\ Len(items) = 3
    /\ lastCall.currentIndex = 2
    /\ currentIndex = 2
    /\ lastCall.result = NoSong

\* How many times a song is queued in a list.
Count(list, song) == Cardinality({k \in 1 .. Len(list) : list[k] = song})

\* C31: shuffle() leaves a permutation of the items it found, and the song
\* getCurrent() returns is the same before and after, whatever the random
\* choices.
C31_ShuffleKeepsCurrent ==
    lastCall.method = "shuffle" =>
        /\ Len(items) = Len(lastCall.items)
        /\ \A song \in Library : Count(items, song) = Count(lastCall.items, song)
        /\ PlaybackQueue_getCurrent([items |-> items, currentIndex |-> currentIndex])
               = PlaybackQueue_getCurrent(Before)

\* shuffle() reversed the queue A, B, C while A was current: A is current
\* at index 2.
C31_Witness ==
    /\ lastCall.method = "shuffle"
    /\ lastCall.items = <<"A", "B", "C">>
    /\ lastCall.currentIndex = 0
    /\ items = <<"C", "B", "A">>
    /\ currentIndex = 2

\* C32: a queue restored from the snapshot of the queue as it was has the
\* same (title, url, rawTitle) at every position and the same currentIndex;
\* a queue restored from any snapshot with an integer currentIndex has
\* -1 <= currentIndex <= items.length - 1.
C32_RoundTrip ==
    /\ (restored.loaded /\ restored.own) =>
           /\ Len(restored.items) = Len(items)
           /\ \A k \in 1 .. Len(items) :
                  Triple(restored.items[k]) = Triple(SongObject(items[k]))
           /\ restored.currentIndex = currentIndex
    /\ (restored.loaded /\ restored.snapshot.currentIndex # << >>) =>
           /\ -1 <= restored.currentIndex
           /\ restored.currentIndex <= Len(restored.items) - 1

\* The queue A, B, C with C current was restored: the song whose title is
\* empty and the one whose rawTitle differs from its title are among them.
C32_Witness ==
    /\ restored.loaded
    /\ restored.own
    /\ items = <<"A", "B", "C">>
    /\ currentIndex = 2
    /\ restored.currentIndex = 2
    /\ restored.items[1].title = ""
    /\ restored.items[3].rawTitle = "c [live]"

(***************************************************************************)
(* Song cache properties.                                                  *)
(***************************************************************************)

\* An activation of fn settles in this step.
Settles(fn) == Len(inflight') < Len(inflight) /\ done'.fn = fn

\* C34: SongCache.get(url) is cache-first.  When cache.match finds an
\* entry, get resolves with that entry's bytes and has called no fetch.
\* When it finds none (or there is no cache) and get settles normally, it
\* has fetched.  When the fetched response is not ok, get rejects and the
\* cache is as it was.  When cache.put rejects, get still resolves with the
\* fetched bytes.
C34_CacheFirstGet ==
    [][Settles("SongCache.get") =>
        /\ done'.cached # NoEntry =>
              /\ done'.settled = "resolved"
              /\ done'.result = ArrayBuffer(done'.cached)
              /\ ~done'.fetched
              /\ cacheStorage' = cacheStorage
        /\ (done'.cached = NoEntry /\ done'.settled = "resolved") =>
              /\ done'.fetched
              /\ done'.result = ArrayBuffer(done'.resp)
        /\ (done'.fetched /\ done'.resp # NoEntry /\ ~Ok(done'.resp)) =>
              /\ done'.settled = "rejected"
              /\ done'.put = "none"
              /\ cacheStorage' = cacheStorage
        /\ done'.put = "fail" =>
              /\ done'.settled = "resolved"
              /\ done'.result = ArrayBuffer(done'.resp)
              /\ Ok(done'.resp)
              /\ cacheStorage' = cacheStorage]_vars

\* A get whose cache.put rejected has resolved with the fetched bytes while
\* the cache holds nothing under its url.
C34_Witness ==
    /\ done.fn = "SongCache.get"
    /\ done.put = "fail"
    /\ done.settled = "resolved"
    /\ done.result = ArrayBuffer(done.resp)
    /\ cacheStorage[done.url] = NoEntry

\* C35: handleSongFile is cache-first and never rejects.  Every activation
\* resolves.  When cache.match finds an entry, the handler resolves with it
\* and has called no fetch.  Whatever the handler writes to the song cache
\* is a response with ok status.  When fetch rejects, the handler resolves
\* with a 504 response.
C35_SongFileCacheFirst ==
    [][Settles("handleSongFile") =>
        /\ done'.settled = "resolved"
        /\ done'.cached # NoEntry =>
              /\ done'.result = done'.cached
              /\ ~done'.fetched
        /\ \A url \in Urls :
              cacheStorage'[url] # cacheStorage[url] =>
                  Ok(cacheStorage'[url])
        /\ done'.resp = NetworkError => done'.result.status = 504]_vars

\* C36: handleSongsJson always resolves with a usable response.  Every
\* activation resolves: with the network response when it is ok, after
\* cache.put was called with it; otherwise with the cached list when
\* cache.match found one, otherwise with a 200 response whose body is
\* '[]'.  With a cached list the result is never a non-OK response.
C36_SongsJsonUsable ==
    [][Settles("handleSongsJson") =>
        /\ done'.settled = "resolved"
        /\ Ok(done'.resp) =>
              /\ done'.result = done'.resp
              /\ done'.put # "none"
        /\ (~Ok(done'.resp) /\ done'.cached # NoEntry) =>
              done'.result = done'.cached
        /\ (~Ok(done'.resp) /\ done'.cached = NoEntry) =>
              done'.result = EmptyList
        /\ done'.cached # NoEntry => Ok(done'.result)]_vars

\* How often url occurs in the list of songs.
Occurrences(list, url) ==
    Cardinality({k \in DOMAIN list : list[k].url = url})

\* C37: when syncLocalSongsWithCache completes without an exception,
\* localSongs mirrors the song cache: every entry's URL is the URL of a
\* cached .dfpwm file, every cached .dfpwm URL has an entry, no URL has
\* gained a second entry, and the function returns true exactly when
\* localSongs is not what it was.
C37_LocalSongsMirrorCache ==
    [][(lastSync.outcome = "running" /\ lastSync'.outcome = "synced") =>
        /\ \A k \in DOMAIN localSongs' :
              /\ isSongUrl(localSongs'[k].url)
              /\ cacheStorage[localSongs'[k].url] # NoEntry
        /\ \A url \in Urls :
              (isSongUrl(url) /\ cacheStorage[url] # NoEntry) =>
                  Occurrences(localSongs', url) >= 1
        /\ \A url \in Urls :
              Occurrences(localSongs', url) <= 1
                  \/ Occurrences(localSongs', url)
                         <= Occurrences(localSongs, url)
        /\ lastSync'.result = (localSongs' # localSongs)]_vars

\* A sync has completed that dropped an entry whose file was no longer
\* cached and pushed an entry for a cached file, and returned true, while
\* the cache also holds the song list.
C37_Witness ==
    /\ lastSync.outcome = "synced"
    /\ lastSync.dropped > 0
    /\ lastSync.pushed > 0
    /\ lastSync.result
    /\ cacheStorage[SONGS_JSON_URL] # NoEntry
    /\ Len(localSongs) = 1

====
